---- MODULE Spec2Model ----
(***************************************************************************)
(* A model of the serialization library: the fixed-width packer            *)
(* (pack / unpack), the varint codec (encode_varint / decode_varint), the  *)
(* append-only writer serializer_t and the cursor-based reader             *)
(* deserializer_t.                                                         *)
(*                                                                         *)
(* Representation.                                                         *)
(*  - A byte is an integer in 0..255; a buffer (std::vector<unsigned       *)
(*    char>) is a sequence of bytes.                                       *)
(*  - A value of an unsigned integer type of W bits is a sequence of W     *)
(*    bits, least-significant bit first.  The widths reach 256 bits, so    *)
(*    the arithmetic the code performs on such a value (>= 0x80, >>= 7,    *)
(*    the cast to unsigned char, +=, the conversion between widths) is     *)
(*    defined on bit sequences.                                            *)
(*  - A size_t is an integer n standing for n modulo 2^64: 0, 1, 2, ...    *)
(*    stand for themselves and -1, -2, ... for SIZE_MAX, SIZE_MAX-1, ...   *)
(*    Addition and subtraction of representatives are then exact, and the  *)
(*    unsigned comparisons are SizeGt / SizeLt / SizeGe below.             *)
(*  - The host is little-endian (std::memcpy of an integer yields its      *)
(*    bytes least-significant first), as on every platform the project     *)
(*    builds on.                                                           *)
(*  - Undefined behaviour (reading a vector past its end, building a       *)
(*    vector from an inverted iterator range, shifting a 64-bit value by   *)
(*    64 or more) is a nondeterministic choice over what a build can do.   *)
(***************************************************************************)
EXTENDS Integers, Sequences, FiniteSets, TLC

VARIABLES wbuf, wlog, phase, rbuf, offset, replay, last, codec, pods

vars == <<wbuf, wlog, phase, rbuf, offset, replay, last, codec, pods>>

(***************************************************************************)
(* Bounds of the model.                                                    *)
(***************************************************************************)
\* Values 0..MaxSmallValue of every width are encoded exhaustively.
MaxSmallValue == 260
\* Longest arbitrary byte sequence handed to decode_varint.
MaxDecodeLen == 3
\* Longest arbitrary buffer a reader is constructed from.
MaxBufLen == 3
\* Largest count passed to bytes(), hex() and skip().
MaxCount == 3
\* A reader whose cursor is more than MaxOverrun past the end of its buffer
\* is only reset or compacted, which keeps the cursor bounded.
MaxOverrun == 2
\* Number of positions just below SIZE_MAX+1 that reset() is called with.
NearMax == 2
\* Largest number of writes applied to a writer before it is read back.
MaxWrites == 2
MaxElements == 2
\* SIZE of the SerializablePod<SIZE> instantiation that is read and written.
PodSize == 2

(***************************************************************************)
(* Bits, bytes and size_t.                                                 *)
(***************************************************************************)
\* 2^n for n in 0..30.
Pow2(n) ==
    <<1, 2, 4, 8, 16, 32, 64, 128, 256, 512, 1024, 2048, 4096, 8192, 16384, 32768, 65536,
      131072, 262144, 524288, 1048576, 2097152, 4194304, 8388608, 16777216, 33554432,
      67108864, 134217728, 268435456, 536870912, 1073741824>>[n + 1]

\* The integer types of the library, by bit width.
Widths == {8, 16, 32, 64, 128, 256}

\* sizeof(Type) for the type of W bits.
SizeOf(W) == W \div 8

\* A function on 1..n as an explicit sequence.
Vec(f) == f \o <<>>

\* e, with v evaluated first (TLC evaluates operator arguments on demand;
\* loops below evaluate their accumulators at every iteration, like the code).
Strict(v, e) == IF v = v THEN e ELSE e

\* The value n (0 <= n < 2^30) as a W-bit unsigned integer.
BitsOf(n, W) == Vec([i \in 1..W |-> IF i <= 30 THEN (n \div Pow2(i - 1)) % 2 ELSE 0])

\* 2^n - 1 and 2^n as W-bit unsigned integers.
LowBits(n, W) == Vec([i \in 1..W |-> IF i <= n THEN 1 ELSE 0])

OneBit(n, W) == Vec([i \in 1..W |-> IF i = n + 1 THEN 1 ELSE 0])

\* The integer held by bits k .. k+n-1 of a value (n <= 8), bits past its width read as 0.
RECURSIVE BitField(_, _, _)
BitField(bits, k, n) ==
    IF n = 0 THEN 0
    ELSE (IF k <= Len(bits) THEN bits[k] ELSE 0) + 2 * BitField(bits, k + 1, n - 1)

\* static_cast<unsigned char>(val): the low 8 bits.
ToUChar(val) == BitField(val, 1, 8)

\* Type(x): conversion of an unsigned value to the type of W bits
\* (truncation of the high bits, or zero extension).
ConvertTo(bits, W) ==
    LET n == Len(bits)
    IN  Vec([i \in 1..W |-> IF i <= n THEN bits[i] ELSE 0])

\* val >= 0x80
GeHex80(val) == \E i \in 8..Len(val) : val[i] = 1

\* val >>= 7
ShiftRight7(val) ==
    LET n == Len(val)
    IN  Vec([i \in 1..n |-> IF i + 7 <= n THEN val[i + 7] ELSE 0])

\* a + b modulo 2^Len(a), carried byte by byte (every width is a multiple of 8).
RECURSIVE AddIter(_, _, _, _, _)
AddIter(a, b, k, carry, acc) ==
    IF 8 * k >= Len(a) THEN acc
    ELSE LET s == BitField(a, 8 * k + 1, 8) + BitField(b, 8 * k + 1, 8) + carry
             next == Append(acc, s % 256)
         IN  Strict(next, AddIter(a, b, k + 1, s \div 256, next))

AddBits(a, b) ==
    LET sum == AddIter(a, b, 0, 0, <<>>)
    IN  Vec([i \in 1..Len(a) |-> (sum[((i - 1) \div 8) + 1] \div Pow2((i - 1) % 8)) % 2])

\* Unsigned comparison of two size_t representatives.
SizeGt(a, b) ==
    IF (a < 0) = (b < 0) THEN a > b ELSE a < 0

SizeLt(a, b) == SizeGt(b, a)

SizeGe(a, b) == ~SizeGt(b, a)

Reverse(s) ==
    LET n == Len(s)
    IN  Vec([i \in 1..n |-> s[n + 1 - i]])

\* The result of a call that threw std::range_error.
RangeError == [status |-> "range_error"]

(***************************************************************************)
(* Fixed-width packer.                                                     *)
(***************************************************************************)
\* Mutant of pack: the reversal for big_endian left out.
pack_unreversed(value, big_endian) ==
    Vec([j \in 1..SizeOf(Len(value)) |-> BitField(value, 8 * (j - 1) + 1, 8)])

\* pack<Type>(value, big_endian), Type of Len(value) bits.
pack(value, big_endian) ==
    LET result == Vec([j \in 1..SizeOf(Len(value)) |-> BitField(value, 8 * (j - 1) + 1, 8)])
    IN  IF big_endian THEN Reverse(result) ELSE result

\* The copy loop of unpack: for (i = offset, j = 0; i < offset + size; ++i, ++j).
RECURSIVE unpack_copy(_, _, _, _, _)
unpack_copy(packed, bytes, i, j, end) ==
    IF SizeLt(i, end)
    THEN LET copied == [bytes EXCEPT ![j + 1] = packed[i + 1]]
         IN  Strict(copied, unpack_copy(packed, copied, i + 1, j + 1, end))
    ELSE bytes

\* The value whose memory image (little-endian) is the byte sequence.
FromBytes(bytes) ==
    Vec([i \in 1..(8 * Len(bytes)) |-> (bytes[((i - 1) \div 8) + 1] \div Pow2((i - 1) % 8)) % 2])

\* Mutant of unpack: the reversal for big_endian left out.
unpack_as_stored(packed, off, W, big_endian) ==
    LET size == SizeOf(W)
    IN  IF SizeGt(off + size, Len(packed))
        THEN RangeError
        ELSE [status |-> "ok",
              value |-> FromBytes(unpack_copy(packed, Vec([j \in 1..size |-> 0]), off, 0, off + size))]

\* unpack<Type>(packed, offset, big_endian), Type of W bits.
unpack(packed, off, W, big_endian) ==
    LET size == SizeOf(W)
    IN  IF SizeGt(off + size, Len(packed))
        THEN RangeError
        ELSE LET bytes == unpack_copy(packed, Vec([j \in 1..size |-> 0]), off, 0, off + size)
             IN  [status |-> "ok",
                  value |-> FromBytes(IF big_endian THEN Reverse(bytes) ELSE bytes)]

(***************************************************************************)
(* Varint codec.                                                           *)
(***************************************************************************)
\* Mutant of max_length: the limit one byte longer.
max_length_longer(W) == SizeOf(W) + 3

\* const auto max_length = sizeof(Type) + 2;
max_length(W) == SizeOf(W) + 2

\* The while loop of encode_varint and the terminal byte.
RECURSIVE encode_loop(_, _, _)
encode_loop(val, W, output) ==
    IF GeHex80(val)
    THEN IF Len(output) = max_length(W) - 1
         THEN RangeError
         ELSE encode_loop(ShiftRight7(val), W, Append(output, (ToUChar(val) % 128) + 128))
    ELSE [status |-> "ok", bytes |-> Append(output, ToUChar(val))]

\* An encoding with the last group marked as continued and a zero byte after it.
encode_padded(r) ==
    IF r.status = "ok"
    THEN [r EXCEPT !.bytes = Append([r.bytes EXCEPT ![Len(r.bytes)] = @ + 128], 0)]
    ELSE r

\* Mutant of encode_varint: the non-canonical encoder.
encode_varint_padded(value) == encode_padded(encode_loop(value, Len(value), <<>>))

\* encode_varint<Type>(value), Type of Len(value) bits.
encode_varint(value) == encode_loop(value, Len(value), <<>>)

\* What a build makes of uint64_t(1) << shift when shift >= 64, which the
\* language leaves undefined: the shift count taken modulo 64 (the x86-64 and
\* AArch64 shift instructions) or a result of 0.
ShiftOutcomes == {"wrap", "zero"}

\* Mutant of group_value: the shift carried out in 32-bit arithmetic (the
\* uint64_t conversion of the operand left out).
group_value_32(b, shift, ub) ==
    LET g == BitsOf(b % 128, 7)
    IN  Vec([i \in 1..64 |-> IF i <= 32 /\ i > shift /\ i - shift <= 7 THEN g[i - shift] ELSE 0])

\* (b & 0x7f) shifted left by `shift` in 64-bit arithmetic:
\*   (shift < 28) ? uint64_t(b & 0x7f) << shift
\*                : uint64_t(b & 0x7f) * (uint64_t(1) << shift)
\* Both arms are the product (b & 0x7f) * 2^shift modulo 2^64 when shift < 64.
group_value(b, shift, ub) ==
    LET g == BitsOf(b % 128, 7)
        s == IF shift < 64 THEN shift ELSE shift % 64
    IN  IF shift >= 64 /\ ub = "zero"
        THEN Vec([i \in 1..64 |-> 0])
        ELSE Vec([i \in 1..64 |-> IF i > s /\ i - s <= 7 THEN g[i - s] ELSE 0])

\* The range check that ends decode_varint:
\*   const auto result = Type(temp_result); if (result != temp_result) throw
decode_finish(temp_result, W, length) ==
    LET result == ConvertTo(temp_result, W)
    IN  IF result # temp_result
        THEN RangeError
        ELSE [status |-> "ok", value |-> result, length |-> length]

\* The do-while loop of decode_varint.
RECURSIVE decode_loop(_, _, _, _, _, _, _)
decode_loop(packed, off, counter, shift, temp_result, W, ub) ==
    IF counter >= Len(packed)
    THEN RangeError
    ELSE LET b == packed[counter + 1]
             value == group_value(b, shift, ub)
             temp == AddBits(temp_result, ConvertTo(value, W))
         IN  IF b >= 128
             THEN Strict(temp, decode_loop(packed, off, counter + 1, shift + 7, temp, W, ub))
             ELSE decode_finish(temp, W, (counter + 1) - off)

\* decode_varint<Type>(packed, offset), Type of W bits.
decode_varint(packed, off, W, ub) ==
    IF SizeGt(off, Len(packed))
    THEN RangeError
    ELSE decode_loop(packed, off, off, 0, ConvertTo(<<>>, W), W, ub)

(***************************************************************************)
(* Hex text helper.                                                        *)
(***************************************************************************)
\* static const char hex_chars[16]
hex_chars == <<"0", "1", "2", "3", "4", "5", "6", "7", "8", "9", "a", "b", "c", "d", "e", "f">>

\* Mutant of to_hex: the low nibble written first.
to_hex_low_first(data) ==
    Vec([i \in 1..(2 * Len(data)) |->
            IF i % 2 = 1
            THEN hex_chars[(data[(i + 1) \div 2] % 16) + 1]
            ELSE hex_chars[(data[i \div 2] \div 16) + 1]])

\* to_hex(data, length): two characters per byte, high nibble first.
to_hex(data) ==
    Vec([i \in 1..(2 * Len(data)) |->
            IF i % 2 = 1
            THEN hex_chars[(data[(i + 1) \div 2] \div 16) + 1]
            ELSE hex_chars[(data[i \div 2] % 16) + 1]])

\* Mutant of read_fixed: the cursor advanced whether or not peek is set.
read_fixed_advancing(buffer, off, W, peek, big_endian) ==
    LET start == off
        next == off + SizeOf(W)
    IN  [offset |-> next] @@ unpack(buffer, start, W, big_endian)

(***************************************************************************)
(* deserializer_t: each read is a function of the buffer and the cursor    *)
(* and yields the new cursor, how the call ended and what it returned.     *)
(*   status "ok"          the call returned                                *)
(*          "range_error" the call threw std::range_error                  *)
(*          "length_error" the call threw std::length_error                *)
(*          "undefined"   the call returned after undefined behaviour      *)
(*          "crash"       the process was terminated                       *)
(***************************************************************************)
\* The fixed-width reads uint8 .. uint256: the cursor is advanced before
\* unpack is called, unpack reads at the position saved in `start`.
read_fixed(buffer, off, W, peek, big_endian) ==
    LET start == off
        next == IF peek THEN off ELSE off + SizeOf(W)
    IN  [offset |-> next] @@ unpack(buffer, start, W, big_endian)

deserializer_uint8(buffer, off, peek) == read_fixed(buffer, off, 8, peek, FALSE)

deserializer_uint16(buffer, off, peek, big_endian) == read_fixed(buffer, off, 16, peek, big_endian)

deserializer_uint32(buffer, off, peek, big_endian) == read_fixed(buffer, off, 32, peek, big_endian)

deserializer_uint64(buffer, off, peek, big_endian) == read_fixed(buffer, off, 64, peek, big_endian)

deserializer_uint128(buffer, off, peek, big_endian) == read_fixed(buffer, off, 128, peek, big_endian)

deserializer_uint256(buffer, off, peek, big_endian) == read_fixed(buffer, off, 256, peek, big_endian)

\* The read of the type of W bits.
deserializer_uint(buffer, off, W, peek, big_endian) ==
    CASE W = 8 -> deserializer_uint8(buffer, off, peek)
      [] W = 16 -> deserializer_uint16(buffer, off, peek, big_endian)
      [] W = 32 -> deserializer_uint32(buffer, off, peek, big_endian)
      [] W = 64 -> deserializer_uint64(buffer, off, peek, big_endian)
      [] W = 128 -> deserializer_uint128(buffer, off, peek, big_endian)
      [] W = 256 -> deserializer_uint256(buffer, off, peek, big_endian)

\* Mutant of boolean: every nonzero byte read as true.
deserializer_boolean_nonzero(buffer, off, peek) ==
    LET r == deserializer_uint8(buffer, off, peek)
    IN  IF r.status = "ok"
        THEN [offset |-> r.offset, status |-> "ok", value |-> (r.value # BitsOf(0, 8))]
        ELSE r

\* boolean(peek): uint8(peek) == 1
deserializer_boolean(buffer, off, peek) ==
    LET r == deserializer_uint8(buffer, off, peek)
    IN  IF r.status = "ok"
        THEN [offset |-> r.offset, status |-> "ok", value |-> (r.value = BitsOf(1, 8))]
        ELSE r

\* What a build makes of a vector built from iterators outside the buffer:
\* the process is terminated, or the bytes outside the buffer read as
\* whatever the memory holds (here: all `fill`).
GarbageBytes == {0, 170}

BytesOutcomes ==
    {[crash |-> TRUE, fill |-> 0]} \cup {[crash |-> FALSE, fill |-> g] : g \in GarbageBytes}

\* bytes(count, peek): no bounds check; the range [start, start + count) is
\* inside the buffer exactly when 0 <= start and start + count <= size.
deserializer_bytes(buffer, off, count, peek, ub) ==
    LET start == off
        next == IF peek THEN off ELSE off + count
    IN  IF start >= 0 /\ start + count <= Len(buffer)
        THEN [offset |-> next, status |-> "ok",
              value |-> Vec([i \in 1..count |-> buffer[start + i]])]
        ELSE IF ub.crash
        THEN [offset |-> next, status |-> "crash"]
        ELSE [offset |-> next, status |-> "undefined",
              value |-> Vec([i \in 1..count |->
                                IF start + i >= 1 /\ start + i <= Len(buffer)
                                THEN buffer[start + i] ELSE ub.fill])]

\* hex(length, peek): to_hex of bytes(length, peek).
deserializer_hex(buffer, off, length, peek, ub) ==
    LET temp == deserializer_bytes(buffer, off, length, peek, ub)
    IN  IF temp.status = "crash"
        THEN temp
        ELSE [temp EXCEPT !.value = to_hex(temp.value)]

\* Mutant of deserialize(data): no size check, the first SIZE bytes copied.
pod_deserialize_unchecked(data) ==
    [status |-> "ok", value |-> Vec([i \in 1..PodSize |-> IF i <= Len(data) THEN data[i] ELSE 0])]

\* SerializablePod<SIZE>::deserialize(data): the size check, then the copy.
pod_deserialize(data) ==
    IF Len(data) # PodSize
    THEN [status |-> "runtime_error"]
    ELSE [status |-> "ok", value |-> data]

\* pod<Type>(peek): bytes(result.size(), peek), then result.deserialize(data).
deserializer_pod(buffer, off, peek, ub) ==
    LET data == deserializer_bytes(buffer, off, PodSize, peek, ub)
    IN  IF data.status = "crash"
        THEN data
        ELSE LET result == pod_deserialize(data.value)
             IN  IF result.status = "ok"
                 THEN [data EXCEPT !.value = result.value]
                 ELSE [offset |-> data.offset, status |-> result.status]

\* varint<Type>(peek): decode at the cursor, then advance by the decoded length.
deserializer_varint(buffer, off, W, peek, ub) ==
    LET start == off
        r == decode_varint(buffer, start, W, ub)
    IN  IF r.status = "ok"
        THEN [offset |-> IF peek THEN off ELSE off + r.length,
              status |-> "ok", value |-> r.value]
        ELSE [offset |-> off, status |-> r.status]

\* i < count for a loop counter i and a uint64_t count.
CounterBelow(i, count) ==
    (\E k \in 31..Len(count) : count[k] = 1) \/ i < BitField(count, 1, 8)
        + 256 * BitField(count, 9, 8) + 65536 * BitField(count, 17, 8)
        + 16777216 * BitField(count, 25, 6)

\* The element loop of varintV: for (i = 0; i < count; ++i) push_back(varint<Type>()).
RECURSIVE varintV_loop(_, _, _, _, _, _, _)
varintV_loop(buffer, off, W, i, count, result, ub) ==
    IF CounterBelow(i, count)
    THEN LET temp == deserializer_varint(buffer, off, W, FALSE, ub)
         IN  IF temp.status = "ok"
             THEN varintV_loop(buffer, temp.offset, W, i + 1, count, Append(result, temp.value), ub)
             ELSE temp
    ELSE [offset |-> off, status |-> "ok", value |-> result]

\* varintV<Type>(peek): the count, the elements, and reset(start) when peeking.
deserializer_varintV(buffer, off, W, peek, ub) ==
    LET start == off
        count == deserializer_varint(buffer, off, 64, FALSE, ub)
    IN  IF count.status # "ok"
        THEN count
        ELSE LET r == varintV_loop(buffer, count.offset, W, 0, count.value, <<>>, ub)
             IN  IF r.status = "ok" /\ peek THEN [r EXCEPT !.offset = start] ELSE r

\* skip(count): offset += count
deserializer_skip(off, count) == off + count

\* reset(position): offset = position
deserializer_reset(off, position) == position

\* What a build makes of a vector built from the range [begin + offset, end)
\* when offset is past the end: std::length_error from the vector's
\* constructor (the distance is negative), or termination.
RangeOutcomes == {"length_error", "crash"}

\* compact(): buffer = vector(buffer.begin() + offset, buffer.end()); the
\* cursor is not touched.
\* compact() that would drop the byte under the cursor as well.
deserializer_compact_past_cursor(buffer, off, ub) ==
    IF off >= 0 /\ off <= Len(buffer)
    THEN [status |-> "ok", buffer |-> SubSeq(buffer, off + 2, Len(buffer))]
    ELSE [status |-> ub, buffer |-> buffer]

deserializer_compact(buffer, off, ub) ==
    IF off >= 0 /\ off <= Len(buffer)
    THEN [status |-> "ok", buffer |-> SubSeq(buffer, off + 1, Len(buffer))]
    ELSE [status |-> ub, buffer |-> buffer]

\* size()
deserializer_size(buffer) == Len(buffer)

\* unread_bytes(): unread = buffer.size() - offset; (unread >= 0) ? unread : 0
deserializer_unread_bytes(buffer, off) ==
    LET unread == Len(buffer) - off
    IN  IF SizeGe(unread, 0) THEN unread ELSE 0

\* unread_data(): vector(buffer.begin() + offset, buffer.end())
deserializer_unread_data(buffer, off, ub) ==
    IF off >= 0 /\ off <= Len(buffer)
    THEN [status |-> "ok", value |-> SubSeq(buffer, off + 1, Len(buffer))]
    ELSE [status |-> ub]

(***************************************************************************)
(* serializer_t: each write yields how the call ended and the buffer       *)
(* after it (a call that throws leaves the buffer as it was).              *)
(***************************************************************************)
\* Mutant of extend: the elements put in front of the buffer.
serializer_extend_front(buffer, vector) == vector \o buffer

\* extend(vector): push_back of every element.
serializer_extend(buffer, vector) == buffer \o vector

\* boolean(value): push_back(1) or push_back(0).
serializer_boolean(buffer, value) ==
    [status |-> "ok", buffer |-> IF value THEN Append(buffer, 1) ELSE Append(buffer, 0)]

\* uint8(value): push_back(value).
serializer_uint8(buffer, value) ==
    [status |-> "ok", buffer |-> Append(buffer, ToUChar(value))]

\* uint16 .. uint256 (value, big_endian): extend(pack(value, big_endian)).
serializer_uint(buffer, value, big_endian) ==
    [status |-> "ok", buffer |-> serializer_extend(buffer, pack(value, big_endian))]

\* bytes(value): extend(value).
serializer_bytes(buffer, value) ==
    [status |-> "ok", buffer |-> serializer_extend(buffer, value)]

\* varint(value): extend(encode_varint(value)).
serializer_varint(buffer, value) ==
    LET bytes == encode_varint(value)
    IN  IF bytes.status = "ok"
        THEN [status |-> "ok", buffer |-> serializer_extend(buffer, bytes.bytes)]
        ELSE [status |-> bytes.status, buffer |-> buffer]

\* The element loop of varint(values).
RECURSIVE serializer_varint_each(_, _, _)
serializer_varint_each(buffer, values, i) ==
    IF i > Len(values)
    THEN [status |-> "ok", buffer |-> buffer]
    ELSE LET r == serializer_varint(buffer, values[i])
         IN  IF r.status = "ok" THEN serializer_varint_each(r.buffer, values, i + 1) ELSE r

\* varint(values): varint(values.size()), a size_t, then varint of every element.
serializer_varint_vector(buffer, values) ==
    LET count == serializer_varint(buffer, BitsOf(Len(values), 64))
    IN  IF count.status = "ok" THEN serializer_varint_each(count.buffer, values, 1) ELSE count

\* Mutant of hex_values: the letters left out of the table.
hex_values_digits_only(c) ==
    CASE c = "0" -> 0 [] c = "1" -> 1 [] c = "2" -> 2 [] c = "3" -> 3 [] c = "4" -> 4
      [] c = "5" -> 5 [] c = "6" -> 6 [] c = "7" -> 7 [] c = "8" -> 8 [] c = "9" -> 9
      [] OTHER -> 255

\* hex_values[c]: the value of a hexadecimal digit, 0xff for any other character.
hex_values(c) ==
    CASE c = "0" -> 0 [] c = "1" -> 1 [] c = "2" -> 2 [] c = "3" -> 3 [] c = "4" -> 4
      [] c = "5" -> 5 [] c = "6" -> 6 [] c = "7" -> 7 [] c = "8" -> 8 [] c = "9" -> 9
      [] c = "a" -> 10 [] c = "b" -> 11 [] c = "c" -> 12 [] c = "d" -> 13 [] c = "e" -> 14
      [] c = "f" -> 15
      [] c = "A" -> 10 [] c = "B" -> 11 [] c = "C" -> 12 [] c = "D" -> 13 [] c = "E" -> 14
      [] c = "F" -> 15
      [] OTHER -> 255

\* char_2_unsigned_char(character): throws when the value is above 0x0f.
char_2_unsigned_char(character) ==
    LET value == hex_values(character)
    IN  IF value > 15 THEN [status |-> "runtime_error"] ELSE [status |-> "ok", value |-> value]

\* The loop of from_hex: result[i] = high << 4 | low, the first bad character throws.
RECURSIVE from_hex_loop(_, _, _, _)
from_hex_loop(text, i, text_size, result) ==
    IF i < text_size
    THEN LET high == char_2_unsigned_char(text[2 * i + 1])
             low == char_2_unsigned_char(text[2 * i + 2])
         IN  IF high.status # "ok" THEN high
             ELSE IF low.status # "ok" THEN low
             ELSE from_hex_loop(text, i + 1, text_size,
                                [result EXCEPT ![i + 1] = ((high.value * 16) % 256) + low.value])
    ELSE [status |-> "ok", bytes |-> result]

\* from_hex(text): a string of odd size throws.
from_hex(text) ==
    IF Len(text) % 2 # 0
    THEN [status |-> "runtime_error"]
    ELSE from_hex_loop(text, 0, Len(text) \div 2, Vec([i \in 1..(Len(text) \div 2) |-> 0]))

\* bytes(data, length): a null pointer with length > 0 throws; otherwise
\* extend(vector(data, data + length)).  data is a pointer: null, or to an array.
serializer_bytes_ptr(buffer, data, length) ==
    IF data.null /\ length > 0
    THEN [status |-> "invalid_argument", buffer |-> buffer]
    ELSE [status |-> "ok",
          buffer |-> serializer_extend(buffer, Vec([i \in 1..length |-> data.array[i]]))]

\* hex(value): extend(from_hex(value)).
serializer_hex(buffer, value) ==
    LET bytes == from_hex(value)
    IN  IF bytes.status = "ok"
        THEN [status |-> "ok", buffer |-> serializer_extend(buffer, bytes.bytes)]
        ELSE [status |-> bytes.status, buffer |-> buffer]

\* Mutant of reset: the buffer left as it is.
serializer_reset_keeping(buffer) == buffer

\* reset(): buffer.clear().
serializer_reset(buffer) == <<>>

\* size(): buffer.size().
serializer_size(buffer) == Len(buffer)

\* vector() that would hand out nothing.
serializer_vector_empty(buffer) == <<>>

\* vector(): a copy of the buffer.
serializer_vector(buffer) == buffer

\* writer[i] = value, i below size().
serializer_assign(buffer, i, value) == [buffer EXCEPT ![i + 1] = value]

\* SerializablePod::serialize(): the stored bytes as a vector.
pod_serialize(bytes) == bytes

\* pod(value): extend(value.serialize()).
serializer_pod(buffer, value) ==
    [status |-> "ok", buffer |-> serializer_extend(buffer, pod_serialize(value))]

\* The element loop of pod(values).
RECURSIVE serializer_pod_each(_, _, _)
serializer_pod_each(buffer, values, i) ==
    IF i > Len(values)
    THEN [status |-> "ok", buffer |-> buffer]
    ELSE serializer_pod_each(serializer_pod(buffer, values[i]).buffer, values, i + 1)

\* Mutant of pod(values): the elements without their count.
serializer_pod_vector_uncounted(buffer, values) == serializer_pod_each(buffer, values, 1)

\* pod(values): varint(values.size()), then pod of every element.
serializer_pod_vector(buffer, values) ==
    LET count == serializer_varint(buffer, BitsOf(Len(values), 64))
    IN  IF count.status = "ok" THEN serializer_pod_each(count.buffer, values, 1) ELSE count

\* The outer loop of pod(values) for a vector of vectors: varint(level1.size()),
\* then pod of every element of level1.
RECURSIVE serializer_pod_levels(_, _, _)
serializer_pod_levels(buffer, values, i) ==
    IF i > Len(values)
    THEN [status |-> "ok", buffer |-> buffer]
    ELSE LET level1 == serializer_pod_vector(buffer, values[i])
         IN  IF level1.status = "ok"
             THEN serializer_pod_levels(level1.buffer, values, i + 1)
             ELSE level1

\* pod(values) for a vector of vectors.
serializer_pod_nested(buffer, values) ==
    LET count == serializer_varint(buffer, BitsOf(Len(values), 64))
    IN  IF count.status = "ok" THEN serializer_pod_levels(count.buffer, values, 1) ELSE count

\* reset(start) when peeking: what a vector read returns.
vector_result(start, peek, r) ==
    IF r.status = "ok" /\ peek THEN [r EXCEPT !.offset = start] ELSE r

\* The element loop of podV and podVV: push_back(pod<Type>()).  An element read
\* outside the buffer ends the loop here: what follows it is undefined as well.
RECURSIVE podV_loop(_, _, _, _, _, _)
RECURSIVE podV_push_back(_, _, _, _, _, _)
podV_loop(buffer, off, i, count, result, ub) ==
    IF CounterBelow(i, count)
    THEN podV_push_back(buffer, i, count, result, ub, deserializer_pod(buffer, off, FALSE, ub))
    ELSE [offset |-> off, status |-> "ok", value |-> result]

\* result.push_back(temp) for the element temp just read, and the next turn.
podV_push_back(buffer, i, count, result, ub, temp) ==
    IF temp.status = "ok"
    THEN podV_loop(buffer, temp.offset, i + 1, count, Append(result, temp.value), ub)
    ELSE temp

\* podV after its count has been read.
podV_elements(buffer, start, peek, ub, count) ==
    IF count.status # "ok"
    THEN count
    ELSE vector_result(start, peek, podV_loop(buffer, count.offset, 0, count.value, <<>>, ub))

\* podV<Type>(peek): the count, the elements, and reset(start) when peeking.
deserializer_podV(buffer, off, peek, ub, shift_ub) ==
    podV_elements(buffer, off, peek, ub, deserializer_varint(buffer, off, 64, FALSE, shift_ub))

\* The outer loop of podVV: a count and that many elements per level.
RECURSIVE podVV_loop(_, _, _, _, _, _, _)
RECURSIVE podVV_push_back(_, _, _, _, _, _, _)
podVV_loop(buffer, off, i, level1_count, result, ub, shift_ub) ==
    IF CounterBelow(i, level1_count)
    THEN podVV_push_back(buffer, i, level1_count, result, ub, shift_ub,
                         deserializer_podV(buffer, off, FALSE, ub, shift_ub))
    ELSE [offset |-> off, status |-> "ok", value |-> result]

\* Mutant of the push_back of podVV: the elements of the inner vector put
\* into the result one by one.
podVV_push_back_flat(buffer, i, level1_count, result, ub, shift_ub, level2) ==
    IF level2.status = "ok"
    THEN podVV_loop(buffer, level2.offset, i + 1, level1_count,
                    result \o level2.value, ub, shift_ub)
    ELSE level2

\* result.push_back(level2) for the inner vector just read, and the next turn.
podVV_push_back(buffer, i, level1_count, result, ub, shift_ub, level2) ==
    IF level2.status = "ok"
    THEN podVV_loop(buffer, level2.offset, i + 1, level1_count,
                    Append(result, level2.value), ub, shift_ub)
    ELSE level2

\* podVV after its outer count has been read.
podVV_levels(buffer, start, peek, ub, shift_ub, level1_count) ==
    IF level1_count.status # "ok"
    THEN level1_count
    ELSE vector_result(start, peek,
                       podVV_loop(buffer, level1_count.offset, 0, level1_count.value, <<>>,
                                  ub, shift_ub))

\* podVV<Type>(peek)
deserializer_podVV(buffer, off, peek, ub, shift_ub) ==
    podVV_levels(buffer, off, peek, ub, shift_ub,
                 deserializer_varint(buffer, off, 64, FALSE, shift_ub))

\* SerializablePod(): unsigned char bytes[SIZE] = {0}.
ZeroPod == Vec([i \in 1..PodSize |-> 0])

\* deserialize(data) on an object whose stored bytes are `bytes`: the bytes
\* after the call and whether it threw.
pod_load(bytes, data) ==
    LET r == pod_deserialize(data)
    IN  [status |-> r.status, bytes |-> IF r.status = "ok" THEN r.value ELSE bytes]

\* from_string(str) on an object whose stored bytes are `bytes`: from_hex, the
\* size check, then the copy.
pod_from_string(bytes, str) ==
    LET input == from_hex(str)
    IN  IF input.status # "ok"
        THEN [status |-> input.status, bytes |-> bytes]
        ELSE IF Len(input.bytes) # PodSize
             THEN [status |-> "runtime_error", bytes |-> bytes]
             ELSE [status |-> "ok", bytes |-> input.bytes]

\* to_string(): to_hex of serialize().
pod_to_string(bytes) == to_hex(pod_serialize(bytes))

\* operator==: std::equal over the bytes.
pod_equal(bytes, other) == \A i \in 1..PodSize : bytes[i] = other[i]

\* operator!=
pod_not_equal(bytes, other) == ~pod_equal(bytes, other)

\* Mutant of the loop of operator<: the bytes compared from the lowest index.
RECURSIVE pod_less_from_lowest(_, _, _)
pod_less_from_lowest(bytes, other, i) ==
    IF i > 0
    THEN IF bytes[PodSize + 1 - i] < other[PodSize + 1 - i] THEN TRUE
         ELSE IF bytes[PodSize + 1 - i] > other[PodSize + 1 - i] THEN FALSE
         ELSE pod_less_from_lowest(bytes, other, i - 1)
    ELSE FALSE

\* The loop of operator<: for (i = SIZE; i-- > 0;), the byte at the position
\* i (counted from 1) compared.
RECURSIVE pod_less_loop(_, _, _)
pod_less_loop(bytes, other, i) ==
    IF i > 0
    THEN IF bytes[i] < other[i] THEN TRUE
         ELSE IF bytes[i] > other[i] THEN FALSE
         ELSE pod_less_loop(bytes, other, i - 1)
    ELSE FALSE

\* operator<
pod_less(bytes, other) == pod_less_loop(bytes, other, PodSize)

\* The loop of operator>.
RECURSIVE pod_greater_loop(_, _, _)
pod_greater_loop(bytes, other, i) ==
    IF i > 0
    THEN IF bytes[i] > other[i] THEN TRUE
         ELSE IF bytes[i] < other[i] THEN FALSE
         ELSE pod_greater_loop(bytes, other, i - 1)
    ELSE FALSE

\* operator>
pod_greater(bytes, other) == pod_greater_loop(bytes, other, PodSize)

\* operator<=
pod_less_equal(bytes, other) == pod_equal(bytes, other) \/ pod_less(bytes, other)

\* operator>=
pod_greater_equal(bytes, other) == pod_equal(bytes, other) \/ pod_greater(bytes, other)

\* empty(): *this == SerializablePod<SIZE>()
pod_empty(bytes) == pod_equal(bytes, ZeroPod)

\* SerializableVector<Type>::append(value)
svec_append(container, value) == Append(container, value)

\* The element *(first2 + i) that std::equal reads from the other container:
\* past its end the read is undefined, here bytes of unknown content.
svec_other_element(other, i, ub) ==
    IF i <= Len(other) THEN other[i] ELSE Vec([k \in 1..PodSize |-> ub.fill])

\* std::equal(first1, last1, first2): every element of [first1, last1) is
\* compared with the element at the same distance from first2; the length of
\* the second range is not looked at.
RECURSIVE svec_std_equal(_, _, _, _)
svec_std_equal(container, other, i, ub) ==
    IF i > Len(container) THEN [status |-> "ok", value |-> TRUE]
    ELSE IF i > Len(other) /\ ub.crash THEN [status |-> "crash"]
    ELSE IF pod_equal(container[i], svec_other_element(other, i, ub))
    THEN svec_std_equal(container, other, i + 1, ub)
    ELSE [status |-> IF i > Len(other) THEN "undefined" ELSE "ok", value |-> FALSE]

\* SerializableVector<Type>::operator==
svec_equal(container, other, ub) == svec_std_equal(container, other, 1, ub)

\* The result of operator!= from that of operator==.
svec_negated(r) == IF r.status = "crash" THEN r ELSE [r EXCEPT !.value = ~r.value]

\* SerializableVector<Type>::operator!=
svec_not_equal(container, other, ub) == svec_negated(svec_equal(container, other, ub))

\* SerializableVector<Type>::size(): the element count of the container.
svec_size(container) == Len(container)

\* SerializableVector<Type>::serialize(): a new writer, writer.pod(container),
\* writer.vector().
svec_serialize(container) == serializer_pod_vector(<<>>, container).buffer

\* SerializableVector<Type>::deserialize(data): a reader over data, then
\* container = reader.podV<Type>().
svec_deserialize(data, ub, shift_ub) == deserializer_podV(data, 0, FALSE, ub, shift_ub)

\* The element loop of pod(values) for SerializableVector elements.
RECURSIVE serializer_svec_each(_, _, _)
serializer_svec_each(buffer, values, i) ==
    IF i > Len(values)
    THEN [status |-> "ok", buffer |-> buffer]
    ELSE serializer_svec_each(serializer_extend(buffer, svec_serialize(values[i])), values, i + 1)

\* The count written, pod of every element follows.
serializer_svec_counted(count, values) ==
    IF count.status = "ok" THEN serializer_svec_each(count.buffer, values, 1) ELSE count

\* pod(values) for a vector of SerializableVector values.
serializer_svec_vector(buffer, values) ==
    serializer_svec_counted(serializer_varint(buffer, BitsOf(Len(values), 64)), values)

\* result.deserialize(data) in pod<SerializableVector<Type>>, data just read.
svec_loaded(data, ub, shift_ub) ==
    IF data.status = "crash"
    THEN data
    ELSE [offset |-> data.offset] @@ svec_deserialize(data.value, ub, shift_ub)

\* pod<SerializableVector<Type>>(peek): Type result; bytes(result.size(), peek);
\* result.deserialize(data).  result is default-constructed: its size() is 0.
deserializer_pod_svec(buffer, off, peek, ub, shift_ub) ==
    svec_loaded(deserializer_bytes(buffer, off, svec_size(<<>>), peek, ub), ub, shift_ub)

\* The element loop of podV<SerializableVector<Type>>.
RECURSIVE podV_svec_loop(_, _, _, _, _, _, _)
RECURSIVE podV_svec_push_back(_, _, _, _, _, _, _)
podV_svec_loop(buffer, off, i, count, result, ub, shift_ub) ==
    IF CounterBelow(i, count)
    THEN podV_svec_push_back(buffer, i, count, result, ub, shift_ub,
                             deserializer_pod_svec(buffer, off, FALSE, ub, shift_ub))
    ELSE [offset |-> off, status |-> "ok", value |-> result]

podV_svec_push_back(buffer, i, count, result, ub, shift_ub, temp) ==
    IF temp.status = "ok"
    THEN podV_svec_loop(buffer, temp.offset, i + 1, count, Append(result, temp.value),
                        ub, shift_ub)
    ELSE temp

\* podV<SerializableVector<Type>> after its count has been read.
podV_svec_elements(buffer, start, peek, ub, shift_ub, count) ==
    IF count.status # "ok"
    THEN count
    ELSE vector_result(start, peek,
                       podV_svec_loop(buffer, count.offset, 0, count.value, <<>>, ub, shift_ub))

\* podV<SerializableVector<Type>>(peek)
deserializer_podV_svec(buffer, off, peek, ub, shift_ub) ==
    podV_svec_elements(buffer, off, peek, ub, shift_ub,
                       deserializer_varint(buffer, off, 64, FALSE, shift_ub))

(***************************************************************************)
(* State.                                                                  *)
(*   wbuf    the writer's buffer                                           *)
(*   wlog    the writes applied to the writer, in order                    *)
(*   phase   "writing", "failed" (a write has thrown), "reading" (a reader  *)
(*           exists and its caller is about                                *)
(*           to call it), "returned" (a call on the reader has returned or *)
(*           thrown), "crashed", or "codec"/"readback" when the varint     *)
(*           codec is exercised alone                                      *)
(*   rbuf    the reader's buffer                                           *)
(*   offset  the reader's cursor (a size_t representative)                 *)
(*   replay  how many entries of wlog have been read back                  *)
(*   last    the call that has just returned and its outcome               *)
(*   codec   input and results of encode_varint / decode_varint            *)
(*   pods    the stored bytes of two SerializablePod<PodSize> objects, or  *)
(*           the containers of two SerializableVector objects              *)
(***************************************************************************)
NoResult == [op |-> "none", status |-> "none"]

NoCodec == [kind |-> "none", W |-> 8, value |-> <<>>, packed |-> <<>>, off |-> 0,
            enc |-> [status |-> "none"], dec |-> [status |-> "none"]]

NoPods == [a |-> ZeroPod, b |-> ZeroPod]

\* All sequences over S of length at most n.
RECURSIVE SeqsUpTo(_, _)
SeqsUpTo(S, n) ==
    IF n = 0 THEN {<<>>}
    ELSE LET shorter == SeqsUpTo(S, n - 1)
         IN  shorter \cup {Append(s, x) : s \in shorter, x \in S}

(***************************************************************************)
(* The varint codec exercised alone: encode_varint on values of every      *)
(* width, decode_varint on its output and on arbitrary byte sequences.     *)
(***************************************************************************)
\* Bit counts at the boundaries of a type of W bits and of 64-bit arithmetic.
BoundaryBits(W) == {0, 1, 7, 8, 14, 63, 64, 70, W - 15, W - 9, W - 8, W - 2, W - 1, W} \cap 0..W

\* Values of the type of W bits.  Up to 64 bits: the small ones, every
\* 2^n - 1 (among them 0, max/2 and max) and every 2^n.  For the 128-bit and
\* 256-bit types: 0, max/2, max and the other 2^n - 1 and 2^n at the boundaries.
ValuesOf(W) ==
    IF W <= 64
    THEN {BitsOf(n, W) : n \in 0..MaxSmallValue}
            \cup {LowBits(n, W) : n \in 0..W} \cup {OneBit(n, W) : n \in 0..(W - 1)}
    ELSE {LowBits(n, W) : n \in BoundaryBits(W)}
            \cup {OneBit(n, W) : n \in BoundaryBits(W) \ {W}}

\* Bytes that matter to the decoder: terminal and continuation bytes with
\* small and large payloads.
VarintBytes == {0, 2, 128, 255}

\* Byte sequences of 5, 10 and 11 bytes whose last group lands at or past the
\* top bit of a 32-bit or 64-bit value.
LongVarints ==
    {Vec([i \in 1..n |-> IF i < n THEN c ELSE t]) : n \in {5, 10, 11}, c \in {128, 255}, t \in {1, 2, 127}}

DecodeInputs == SeqsUpTo(VarintBytes, MaxDecodeLen) \cup LongVarints

CodecInputs ==
    UNION {{[NoCodec EXCEPT !.kind = "value", !.W = W, !.value = v] : v \in ValuesOf(W)} :
              W \in Widths}
        \cup UNION {{[NoCodec EXCEPT !.kind = "bytes", !.W = W, !.packed = p, !.off = o] :
                        W \in Widths, o \in {0, 1, Len(p) + 1}} : p \in DecodeInputs}

InitVarint ==
    /\ wbuf = <<>>
    /\ wlog = <<>>
    /\ phase = "codec"
    /\ rbuf = <<>>
    /\ offset = 0
    /\ replay = 0
    /\ last = NoResult
    /\ codec \in CodecInputs
    /\ pods = NoPods

\* encode_varint(value)
CodecEncode ==
    /\ codec.kind = "value"
    /\ codec.enc.status = "none"
    /\ codec' = [codec EXCEPT !.enc = encode_varint(codec.value)]
    /\ UNCHANGED <<wbuf, wlog, phase, rbuf, offset, replay, last, pods>>

\* decode_varint(encode_varint(value), 0)
CodecDecodeEncoded ==
    /\ codec.enc.status = "ok"
    /\ codec.dec.status = "none"
    /\ \E ub \in ShiftOutcomes :
          codec' = [codec EXCEPT !.packed = codec.enc.bytes,
                                 !.dec = decode_varint(codec.enc.bytes, 0, codec.W, ub)]
    /\ UNCHANGED <<wbuf, wlog, phase, rbuf, offset, replay, last, pods>>

\* decode_varint(packed, offset) on an arbitrary byte sequence
CodecDecode ==
    /\ codec.kind = "bytes"
    /\ codec.dec.status = "none"
    /\ \E ub \in ShiftOutcomes :
          codec' = [codec EXCEPT !.dec = decode_varint(codec.packed, codec.off, codec.W, ub)]
    /\ UNCHANGED <<wbuf, wlog, phase, rbuf, offset, replay, last, pods>>

\* writer.varint(value); writer.bytes(tail); deserializer_t reader(writer);
\* reader.varint<Type>()
CodecReadBack ==
    /\ codec.kind = "value"
    /\ phase = "codec"
    /\ \E w \in {serializer_varint(<<>>, codec.value)} :
          /\ w.status = "ok"
          /\ \E tail \in {<<>>, <<128>>}, ub \in ShiftOutcomes :
                \E buf \in {serializer_bytes(w.buffer, tail).buffer} :
                   \E r \in {deserializer_varint(buf, 0, codec.W, FALSE, ub)} :
                      /\ wbuf' = buf
                      /\ rbuf' = buf
                      /\ offset' = r.offset
                      /\ last' = [op |-> "varint", W |-> codec.W, peek |-> FALSE, start |-> 0] @@ r
    /\ phase' = "readback"
    /\ UNCHANGED <<wlog, replay, codec, pods>>

NextVarint == CodecEncode \/ CodecDecodeEncoded \/ CodecDecode \/ CodecReadBack

SpecVarint == InitVarint /\ [][NextVarint]_vars

(***************************************************************************)
(* A deserializer_t constructed over a byte vector and driven by any        *)
(* sequence of its operations.                                             *)
(***************************************************************************)
\* Bytes of the reader's buffers: boolean true, another terminal varint byte, and a
\* continuation byte.
ReaderBytes == {1, 2, 129}

\* A buffer long enough for one value of every fixed width; every byte is a
\* terminal varint byte.
WideBuffer == Vec([i \in 1..32 |-> i])

ReaderBuffers == SeqsUpTo(ReaderBytes, MaxBufLen) \cup {WideBuffer}

\* deserializer_t(std::vector<unsigned char>): buffer(input), offset 0.
Init ==
    /\ wbuf = <<>>
    /\ wlog = <<>>
    /\ phase = "reading"
    /\ rbuf \in ReaderBuffers
    /\ offset = 0
    /\ replay = 0
    /\ last = NoResult
    /\ codec = NoCodec
    /\ pods = NoPods

\* Calls that move the cursor are explored while the cursor is within NearMax
\* below 0 (modulo 2^64) and MaxOverrun past MaxBufLen; reset() and the
\* queries are explored everywhere.
\* The outcomes of a call are those of undefined behaviour only where the
\* call has undefined behaviour: bytes() outside the buffer, a varint whose
\* tenth byte is read (the shift by 64 or more), a range that starts past the end.
BytesUB(buffer, off, count) ==
    IF off >= 0 /\ off + count <= Len(buffer)
    THEN {[crash |-> FALSE, fill |-> 0]}
    ELSE BytesOutcomes

ShiftUB(buffer, off) ==
    IF off >= 0 /\ Len(buffer) - off >= 10 THEN ShiftOutcomes ELSE {"wrap"}

RangeUB(buffer, off) ==
    IF off >= 0 /\ off <= Len(buffer) THEN {"length_error"} ELSE RangeOutcomes

InWindow == offset \in (0 - NearMax)..(MaxBufLen + MaxOverrun)

Call(op, W, peek, big_endian, count) ==
    [op |-> op, W |-> W, peek |-> peek, big_endian |-> big_endian, count |-> count,
     start |-> offset]

\* The effect of a read on the reader: the cursor, what the caller saw, and
\* whether the process is still there.
Finish(call, r) ==
    /\ offset' = r.offset
    /\ last' = call @@ r
    /\ phase' = IF r.status = "crash" THEN "crashed" ELSE "returned"
    /\ UNCHANGED <<wbuf, wlog, rbuf, replay, codec, pods>>

ReadBoolean ==
    /\ phase = "reading" /\ InWindow
    /\ \E peek \in BOOLEAN :
          \E r \in {deserializer_boolean(rbuf, offset, peek)} :
             Finish(Call("boolean", 8, peek, FALSE, 1), r)

ReadUint8 ==
    /\ phase = "reading" /\ InWindow
    /\ \E peek \in BOOLEAN :
          \E r \in {deserializer_uint8(rbuf, offset, peek)} :
             Finish(Call("uint", 8, peek, FALSE, 1), r)

ReadUint16 ==
    /\ phase = "reading" /\ InWindow
    /\ \E peek \in BOOLEAN, big_endian \in BOOLEAN :
          \E r \in {deserializer_uint16(rbuf, offset, peek, big_endian)} :
             Finish(Call("uint", 16, peek, big_endian, 2), r)

ReadUint32 ==
    /\ phase = "reading" /\ InWindow
    /\ \E peek \in BOOLEAN, big_endian \in BOOLEAN :
          \E r \in {deserializer_uint32(rbuf, offset, peek, big_endian)} :
             Finish(Call("uint", 32, peek, big_endian, 4), r)

ReadUint64 ==
    /\ phase = "reading" /\ InWindow
    /\ \E peek \in BOOLEAN, big_endian \in BOOLEAN :
          \E r \in {deserializer_uint64(rbuf, offset, peek, big_endian)} :
             Finish(Call("uint", 64, peek, big_endian, 8), r)

ReadUint128 ==
    /\ phase = "reading" /\ InWindow
    /\ \E peek \in BOOLEAN, big_endian \in BOOLEAN :
          \E r \in {deserializer_uint128(rbuf, offset, peek, big_endian)} :
             Finish(Call("uint", 128, peek, big_endian, 16), r)

ReadUint256 ==
    /\ phase = "reading" /\ InWindow
    /\ \E peek \in BOOLEAN, big_endian \in BOOLEAN :
          \E r \in {deserializer_uint256(rbuf, offset, peek, big_endian)} :
             Finish(Call("uint", 256, peek, big_endian, 32), r)

ReadBytes ==
    /\ phase = "reading" /\ InWindow
    /\ \E count \in 0..MaxCount, peek \in BOOLEAN :
       \E ub \in BytesUB(rbuf, offset, count) :
          \E r \in {deserializer_bytes(rbuf, offset, count, peek, ub)} :
             Finish(Call("bytes", 8, peek, FALSE, count), r)

ReadHex ==
    /\ phase = "reading" /\ InWindow
    /\ \E length \in 0..MaxCount, peek \in BOOLEAN :
       \E ub \in BytesUB(rbuf, offset, length) :
          \E r \in {deserializer_hex(rbuf, offset, length, peek, ub)} :
             Finish(Call("hex", 8, peek, FALSE, length), r)

ReadPod ==
    /\ phase = "reading" /\ InWindow
    /\ \E peek \in BOOLEAN, ub \in BytesUB(rbuf, offset, PodSize) :
          \E r \in {deserializer_pod(rbuf, offset, peek, ub)} :
             Finish(Call("pod", 8, peek, FALSE, PodSize), r)

ReadVarint ==
    /\ phase = "reading" /\ InWindow
    /\ \E W \in Widths, peek \in BOOLEAN, ub \in ShiftUB(rbuf, offset) :
          \E r \in {deserializer_varint(rbuf, offset, W, peek, ub)} :
             Finish(Call("varint", W, peek, FALSE, 0), r)

ReadVarintV ==
    /\ phase = "reading" /\ InWindow
    /\ \E W \in Widths, peek \in BOOLEAN, ub \in ShiftUB(rbuf, offset) :
          \E r \in {deserializer_varintV(rbuf, offset, W, peek, ub)} :
             Finish(Call("varintV", W, peek, FALSE, 0), r)

ReadPodV ==
    /\ phase = "reading" /\ InWindow
    /\ \E peek \in BOOLEAN, ub \in BytesOutcomes, shift_ub \in ShiftUB(rbuf, offset) :
          \E r \in {deserializer_podV(rbuf, offset, peek, ub, shift_ub)} :
             Finish(Call("podV", 8, peek, FALSE, 0), r)

ReadPodVV ==
    /\ phase = "reading" /\ InWindow
    /\ \E peek \in BOOLEAN, ub \in BytesOutcomes, shift_ub \in ShiftUB(rbuf, offset) :
          \E r \in {deserializer_podVV(rbuf, offset, peek, ub, shift_ub)} :
             Finish(Call("podVV", 8, peek, FALSE, 0), r)

Skip ==
    /\ phase = "reading" /\ InWindow
    /\ \E count \in 0..MaxCount :
          Finish(Call("skip", 8, FALSE, FALSE, count),
                 [offset |-> deserializer_skip(offset, count), status |-> "ok"])

Reset ==
    /\ phase = "reading"
    /\ \E position \in (0 - NearMax)..(MaxBufLen + MaxOverrun) :
          Finish(Call("reset", 8, FALSE, FALSE, position),
                 [offset |-> deserializer_reset(offset, position), status |-> "ok"])

\* compact(): `before` keeps what unread_data() returned just before the call.
\* It is explored on the short buffers.
Compact ==
    /\ phase = "reading" /\ InWindow
    /\ Len(rbuf) <= MaxBufLen
    /\ \E ub \in RangeUB(rbuf, offset) :
          \E r \in {deserializer_compact(rbuf, offset, ub)} :
             /\ rbuf' = r.buffer
             /\ last' = Call("compact", 8, FALSE, FALSE, 0)
                           @@ [status |-> r.status,
                               before |-> deserializer_unread_data(rbuf, offset, ub)]
             /\ phase' = IF r.status = "crash" THEN "crashed" ELSE "returned"
    /\ UNCHANGED <<wbuf, wlog, offset, replay, codec, pods>>

Size ==
    /\ phase = "reading"
    /\ Finish(Call("size", 8, FALSE, FALSE, 0),
              [offset |-> offset, status |-> "ok", value |-> deserializer_size(rbuf)])

UnreadBytes ==
    /\ phase = "reading"
    /\ Finish(Call("unread_bytes", 8, FALSE, FALSE, 0),
              [offset |-> offset, status |-> "ok",
               value |-> deserializer_unread_bytes(rbuf, offset)])

UnreadData ==
    /\ phase = "reading"
    /\ \E ub \in RangeUB(rbuf, offset) :
          Finish(Call("unread_data", 8, FALSE, FALSE, 0),
                 [offset |-> offset] @@ deserializer_unread_data(rbuf, offset, ub))

\* The caller takes the value returned, or catches the exception thrown, and
\* is ready to make its next call on the reader.
Return ==
    /\ phase = "returned"
    /\ phase' = "reading"
    /\ last' = NoResult
    /\ UNCHANGED <<wbuf, wlog, rbuf, offset, replay, codec, pods>>

Next ==
    \/ ReadBoolean \/ ReadUint8 \/ ReadUint16 \/ ReadUint32 \/ ReadUint64
    \/ ReadUint128 \/ ReadUint256 \/ ReadBytes \/ ReadHex \/ ReadPod
    \/ ReadVarint \/ ReadVarintV \/ ReadPodV \/ ReadPodVV \/ Skip \/ Reset \/ Compact
    \/ Size \/ UnreadBytes \/ UnreadData \/ Return

Spec == Init /\ [][Next]_vars

(***************************************************************************)
(* Claims about the varint codec, checked under SpecVarint.                *)
(***************************************************************************)
\* Index of the terminal byte (high bit clear) of the varint that starts at
\* offset off of packed, 0 when the sequence ends before one.
TerminalIndex(packed, off) ==
    IF \E i \in (off + 1)..Len(packed) : packed[i] < 128
    THEN CHOOSE i \in (off + 1)..Len(packed) :
            packed[i] < 128 /\ \A j \in (off + 1)..(i - 1) : packed[j] >= 128
    ELSE 0

\* The 7-bit groups of the varint at off hold a set bit at position W or above:
\* the value they spell does not fit the type of W bits.
GroupsOverflow(packed, off, W) ==
    LET t == TerminalIndex(packed, off)
    IN  /\ t > 0
        /\ \E i \in (off + 1)..t : \E j \in 0..6 :
              /\ ((packed[i] % 128) \div Pow2(j)) % 2 = 1
              /\ 7 * (i - off - 1) + j >= W

\* C4: decode_varint raises a range error for every byte sequence whose 7-bit
\* groups spell a value that does not fit the type; it never returns a
\* truncated value.
C4_DecodeRejectsOverflow ==
    (/\ codec.dec.status # "none"
     /\ codec.off <= Len(codec.packed)
     /\ GroupsOverflow(codec.packed, codec.off, codec.W))
        => codec.dec.status = "range_error"

\* C5: for the widths 8, 16, 32 and 64, encode_varint succeeds on every value,
\* decode_varint of the result at offset 0 returns the value and a consumed
\* count equal to the encoded length, and a non-peek varint<W>() read leaves
\* the cursor on the first byte after the varint.
C5_VarintRoundTrip ==
    (codec.kind = "value" /\ codec.W \in {8, 16, 32, 64}) =>
        /\ codec.enc.status \in {"none", "ok"}
        /\ codec.dec.status # "none" =>
              /\ codec.dec.status = "ok"
              /\ codec.dec.value = codec.value
              /\ codec.dec.length = Len(codec.enc.bytes)
        /\ phase = "readback" =>
              /\ last.status = "ok"
              /\ last.value = codec.value
              /\ Len(rbuf) > offset => rbuf[offset + 1] = 128
              /\ codec.enc.status = "ok" => offset = Len(codec.enc.bytes)

\* The largest 64-bit value was encoded to ten bytes, decoded, and read back
\* from a buffer that holds one more byte.
C5_Witness ==
    /\ codec.W = 64
    /\ codec.value = LowBits(64, 64)
    /\ codec.enc.status = "ok"
    /\ Len(codec.enc.bytes) = 10
    /\ codec.dec.status = "ok"
    /\ phase = "readback"
    /\ Len(rbuf) = 11
    /\ offset = 10

\* C6: for the 128-bit and 256-bit types the values 0, max/2 and max encode
\* without error and decode to the original value.
C6_WideBoundaryRoundTrip ==
    (/\ codec.kind = "value"
     /\ codec.W \in {128, 256}
     /\ codec.value \in {LowBits(0, codec.W), LowBits(codec.W - 1, codec.W), LowBits(codec.W, codec.W)})
        => /\ codec.enc.status \in {"none", "ok"}
           /\ codec.dec.status # "none" =>
                 (codec.dec.status = "ok" /\ codec.dec.value = codec.value)

\* Number of significant bits of a value, 0 for the value 0.
BitLength(value) ==
    IF \A i \in 1..Len(value) : value[i] = 0
    THEN 0
    ELSE CHOOSE i \in 1..Len(value) :
            value[i] = 1 /\ \A j \in (i + 1)..Len(value) : value[j] = 0

\* Number of 7-bit groups needed to hold a value.
NeededLength(value) ==
    IF BitLength(value) = 0 THEN 1 ELSE (BitLength(value) + 6) \div 7

\* C7 as stated: encode_varint never returns more than sizeof(T)+1 bytes and
\* raises a range error for a value that needs more.
C7_AtMostSizePlusOne ==
    (codec.kind = "value" /\ codec.enc.status # "none") =>
        /\ codec.enc.status = "ok" => Len(codec.enc.bytes) <= SizeOf(codec.W) + 1
        /\ NeededLength(codec.value) > SizeOf(codec.W) + 1 => codec.enc.status = "range_error"

\* C7 as amended: encode_varint never returns more than sizeof(T)+2 bytes and
\* raises a range error for a value that needs more than sizeof(T)+2 bytes.
C7_AtMostSizePlusTwo ==
    (codec.kind = "value" /\ codec.enc.status # "none") =>
        /\ codec.enc.status = "ok" =>
              /\ Len(codec.enc.bytes) <= SizeOf(codec.W) + 2
              /\ Len(codec.enc.bytes) = NeededLength(codec.value)
        /\ NeededLength(codec.value) > SizeOf(codec.W) + 2 => codec.enc.status = "range_error"

\* The largest 128-bit value needs 19 bytes, one more than sizeof + 2, and
\* encode_varint raised a range error.
C7_Witness ==
    /\ codec.W = 128
    /\ codec.value = LowBits(128, 128)
    /\ NeededLength(codec.value) = SizeOf(128) + 3
    /\ codec.enc.status = "range_error"

(***************************************************************************)
(* Claims about the reader, checked under Spec.                            *)
(***************************************************************************)
\* C2: in every state of a reader reached by reads, skip, reset and compact
\* the cursor is at least 0 and at most the length of the buffer.
C2_CursorWithinBuffer ==
    phase \in {"reading", "returned"} =>
        (SizeGe(offset, 0) /\ ~SizeGt(offset, Len(rbuf)))

\* The reads that take a fixed number of bytes; last.count holds the number.
SizedReads == {"boolean", "uint", "bytes", "hex", "pod"}

\* C3: a read that requests more bytes than remain between the cursor and the
\* end of the buffer, and a varint read on a buffer that ends before a terminal
\* byte, fail with a range error and return no data.
C3_ShortReadRaisesRangeError ==
    (/\ phase \in {"returned", "crashed"}
     /\ last.op \in SizedReads \cup {"varint"}
     /\ last.start >= 0 /\ last.start <= Len(rbuf)
     /\ \/ last.op \in SizedReads /\ last.count > Len(rbuf) - last.start
        \/ last.op = "varint" /\ \A i \in (last.start + 1)..Len(rbuf) : rbuf[i] >= 128)
        => last.status = "range_error"

\* The single-value reads.
SingleReads == SizedReads \cup {"varint"}

\* The single-value read `op` made with the given arguments.
SingleRead(op, buffer, off, W, peek, big_endian, count, bytes_ub, shift_ub) ==
    CASE op = "boolean" -> deserializer_boolean(buffer, off, peek)
      [] op = "uint" -> deserializer_uint(buffer, off, W, peek, big_endian)
      [] op = "bytes" -> deserializer_bytes(buffer, off, count, peek, bytes_ub)
      [] op = "hex" -> deserializer_hex(buffer, off, count, peek, bytes_ub)
      [] op = "pod" -> deserializer_pod(buffer, off, peek, bytes_ub)
      [] op = "varint" -> deserializer_varint(buffer, off, W, peek, shift_ub)

\* The buffer holds the bytes the read `call` asks for at the cursor off.
HoldsEnough(call, buffer, off) ==
    /\ off >= 0
    /\ IF call.op = "varint"
       THEN TerminalIndex(buffer, off) > 0
       ELSE off + call.count <= Len(buffer)

\* C8: a single-value read with peek = true on a reader that holds enough
\* bytes succeeds, leaves the cursor and the buffer as they were, and returns
\* the value the same read with peek = false returns from that cursor.
C8_PeekReturnsWithoutAdvancing ==
    [][(/\ phase = "reading" /\ phase' = "returned"
        /\ last'.op \in SingleReads
        /\ last'.peek
        /\ HoldsEnough(last', rbuf, offset))
          => /\ last'.status = "ok"
             /\ offset' = offset
             /\ rbuf' = rbuf
             /\ \A bytes_ub \in BytesUB(rbuf, offset, last'.count), shift_ub \in ShiftUB(rbuf, offset) :
                   LET r == SingleRead(last'.op, rbuf, offset, last'.W, FALSE,
                                       last'.big_endian, last'.count, bytes_ub, shift_ub)
                   IN  /\ r.status = "ok"
                       /\ r.value = last'.value
                       /\ r.offset >= offset]_vars

\* A uint256 was peeked at the start of the 32-byte buffer and the cursor is
\* still at the start.
C8_Witness ==
    /\ phase = "returned"
    /\ last.op = "uint" /\ last.W = 256 /\ last.peek /\ last.big_endian
    /\ last.status = "ok"
    /\ last.value = FromBytes(Reverse(rbuf))
    /\ offset = 0

\* C9: when the cursor is at most size(), unread_data() right after compact()
\* equals unread_data() right before it.
C9_CompactKeepsUnreadData ==
    (phase = "returned" /\ last.op = "compact" /\ last.status = "ok") =>
        \A ub \in RangeOutcomes : deserializer_unread_data(rbuf, offset, ub) = last.before

\* C10: unread_bytes() is size() minus the cursor when the cursor is at most
\* size() and 0 otherwise, and unread_data() is the bytes from the cursor to the
\* end of the buffer.
C10_UnreadFollowsCursor ==
    /\ (phase = "returned" /\ last.op = "unread_bytes") =>
          /\ last.value = IF SizeGt(offset, Len(rbuf)) THEN 0 ELSE Len(rbuf) - offset
          /\ ~SizeGt(last.value, Len(rbuf))
    /\ (phase = "returned" /\ last.op = "unread_data" /\ ~SizeGt(offset, Len(rbuf))) =>
          /\ last.status = "ok"
          /\ last.value = SubSeq(rbuf, offset + 1, Len(rbuf))

\* The number of unread bytes as the reader documents it: the bytes from the
\* cursor to the end of the buffer, none when the cursor is past the end.
UnreadCount(buffer, off) ==
    IF SizeGt(off, Len(buffer)) THEN 0 ELSE Len(buffer) - off

\* C11: in any reader state and for any k up to the unread byte count, bytes(k)
\* with the result discarded returns like skip(k) and leaves the cursor where
\* skip(k) leaves it, so the read that follows returns the same value and ends
\* at the same cursor.
C11_SkipMatchesDiscardedBytes ==
    phase = "reading" =>
        \A k \in 0..MaxCount :
           k <= UnreadCount(rbuf, offset) =>
              \A ub \in BytesUB(rbuf, offset, k) :
                 LET discarded == deserializer_bytes(rbuf, offset, k, FALSE, ub)
                     skipped == deserializer_skip(offset, k)
                 IN  /\ discarded.status = "ok"
                     /\ discarded.offset = skipped
                     /\ \A op \in {"boolean", "uint", "varint"}, big_endian \in BOOLEAN :
                           SingleRead(op, rbuf, discarded.offset, 16, FALSE, big_endian, 0, ub, "wrap")
                              = SingleRead(op, rbuf, skipped, 16, FALSE, big_endian, 0, ub, "wrap")

(***************************************************************************)
(* A serializer_t filled by typed writes, a deserializer_t constructed     *)
(* from it, and the same sequence of typed reads made on the reader.       *)
(***************************************************************************)
\* The value of W bits whose bytes are 1, 2, 3, ... from the least significant.
Ascending(W) == FromBytes(Vec([i \in 1..SizeOf(W) |-> i]))

\* serializer_t(): an empty buffer.
InitRoundTrip ==
    /\ wbuf = <<>>
    /\ wlog = <<>>
    /\ phase = "writing"
    /\ rbuf = <<>>
    /\ offset = 0
    /\ replay = 0
    /\ last = NoResult
    /\ codec = NoCodec
    /\ pods = NoPods

\* The effect of a write: the buffer after it, and the entry of the log that
\* names the read matching it and the size of the buffer before the write.
Written(w, entry) ==
    /\ w.status = "ok"
    /\ wbuf' = w.buffer
    /\ wlog' = Append(wlog, entry)
    /\ UNCHANGED <<phase, rbuf, offset, replay, last, codec, pods>>

Entry(op, W, big_endian, count, value) ==
    [op |-> op, W |-> W, big_endian |-> big_endian, count |-> count, value |-> value,
     at |-> Len(wbuf)]

WriteBoolean ==
    /\ phase = "writing" /\ Len(wlog) < MaxWrites
    /\ \E value \in BOOLEAN :
          Written(serializer_boolean(wbuf, value), Entry("boolean", 8, FALSE, 1, value))

WriteUint8 ==
    /\ phase = "writing" /\ Len(wlog) < MaxWrites
    /\ \E value \in {Ascending(8), LowBits(8, 8)} :
          Written(serializer_uint8(wbuf, value), Entry("uint", 8, FALSE, 1, value))

WriteUint16 ==
    /\ phase = "writing" /\ Len(wlog) < MaxWrites
    /\ \E value \in {Ascending(16), LowBits(16, 16)}, big_endian \in BOOLEAN :
          Written(serializer_uint(wbuf, value, big_endian), Entry("uint", 16, big_endian, 2, value))

WriteUint32 ==
    /\ phase = "writing" /\ Len(wlog) < MaxWrites
    /\ \E value \in {Ascending(32), LowBits(32, 32)}, big_endian \in BOOLEAN :
          Written(serializer_uint(wbuf, value, big_endian), Entry("uint", 32, big_endian, 4, value))

WriteUint64 ==
    /\ phase = "writing" /\ Len(wlog) < MaxWrites
    /\ \E value \in {Ascending(64), LowBits(64, 64)}, big_endian \in BOOLEAN :
          Written(serializer_uint(wbuf, value, big_endian), Entry("uint", 64, big_endian, 8, value))

WriteBytes ==
    /\ phase = "writing" /\ Len(wlog) < MaxWrites
    /\ \E value \in {<<>>, <<7>>, <<129, 1>>} :
          Written(serializer_bytes(wbuf, value), Entry("bytes", 8, FALSE, Len(value), value))

WriteVarint ==
    /\ phase = "writing" /\ Len(wlog) < MaxWrites
    /\ \E W \in {8, 16, 32, 64} :
          \E value \in (IF W = 8 THEN {Ascending(W)} ELSE {}) \cup {LowBits(W, W)} :
             Written(serializer_varint(wbuf, value), Entry("varint", W, FALSE, 0, value))

WriteVarintVector ==
    /\ phase = "writing" /\ Len(wlog) < MaxWrites
    /\ \E W \in {8, 64} :
          \E values \in {<<>>, <<LowBits(W, W), Ascending(W)>>} :
             Written(serializer_varint_vector(wbuf, values), Entry("varintV", W, FALSE, 0, values))

\* deserializer_t(const serializer_t &writer): buffer = writer.vector().
Construct ==
    /\ phase = "writing"
    /\ phase' = "reading"
    /\ rbuf' = serializer_vector(wbuf)
    /\ offset' = 0
    /\ UNCHANGED <<wbuf, wlog, replay, last, codec, pods>>

\* The non-peek read that matches the next write of the log.
ReplayRead ==
    /\ phase = "reading"
    /\ replay < Len(wlog)
    /\ \E w \in {wlog[replay + 1]} :
          \E bytes_ub \in BytesUB(rbuf, offset, w.count), shift_ub \in ShiftUB(rbuf, offset) :
             \E r \in {IF w.op = "varintV"
                       THEN deserializer_varintV(rbuf, offset, w.W, FALSE, shift_ub)
                       ELSE SingleRead(w.op, rbuf, offset, w.W, FALSE, w.big_endian,
                                       w.count, bytes_ub, shift_ub)} :
                /\ offset' = r.offset
                /\ last' = Call(w.op, w.W, FALSE, w.big_endian, w.count) @@ r
                /\ phase' = IF r.status = "crash" THEN "crashed" ELSE phase
    /\ replay' = replay + 1
    /\ UNCHANGED <<wbuf, wlog, rbuf, codec, pods>>

\* unread_bytes() after the last read.
ReplayUnreadBytes ==
    /\ phase = "reading"
    /\ replay = Len(wlog)
    /\ last' = Call("unread_bytes", 8, FALSE, FALSE, 0)
                  @@ [status |-> "ok", value |-> deserializer_unread_bytes(rbuf, offset)]
    /\ phase' = "done"
    /\ UNCHANGED <<wbuf, wlog, rbuf, offset, replay, codec, pods>>

NextRoundTrip ==
    \/ WriteBoolean \/ WriteUint8 \/ WriteUint16 \/ WriteUint32 \/ WriteUint64
    \/ WriteBytes \/ WriteVarint \/ WriteVarintVector
    \/ Construct \/ ReplayRead \/ ReplayUnreadBytes

SpecRoundTrip == InitRoundTrip /\ [][NextRoundTrip]_vars

\* C1: a reader constructed from a writer and driven with the reads that match
\* the writes, in order, returns the written values, and after the last read
\* the cursor equals size() and unread_bytes() is 0.
C1_RoundTrip ==
    /\ (phase \in {"reading", "crashed"} /\ replay > 0) =>
          /\ last.op = wlog[replay].op
          /\ last.status = "ok"
          /\ last.value = wlog[replay].value
    /\ phase = "done" =>
          /\ replay = Len(wlog)
          /\ offset = deserializer_size(rbuf)
          /\ last.op = "unread_bytes"
          /\ last.value = 0

\* A varint vector and a big-endian uint16 were written and read back, and
\* the reader is at the end of its buffer.
C1_Witness ==
    /\ phase = "done"
    /\ Len(wlog) = 2
    /\ wlog[1].op = "varintV" /\ wlog[1].W = 64 /\ Len(wlog[1].value) = 2
    /\ wlog[2].op = "uint" /\ wlog[2].W = 16 /\ wlog[2].big_endian
    /\ wlog[2].value = Ascending(16)
    /\ rbuf = wbuf
    /\ offset = Len(rbuf)
    /\ last.value = 0

(***************************************************************************)
(* A serializer_t driven by every write operation and by reset(), and a    *)
(* deserializer_t constructed from it to read the last write back.         *)
(***************************************************************************)
\* SerializablePod values: bytes 1, 2, 3, ... and a value whose only nonzero
\* byte is the last.
AscendingPod == Vec([i \in 1..PodSize |-> i])

HighPod == Vec([i \in 1..PodSize |-> IF i = PodSize THEN 255 ELSE 0])

\* Arguments of bytes(data, length): a null pointer, or an array and its length.
NullPointer == [null |-> TRUE, array |-> <<>>]

PointerTo(array) == [null |-> FALSE, array |-> array]

\* Buffers a writer is constructed over.
WriterVectors == SeqsUpTo({0, 129}, MaxBufLen)

\* serializer_t(const std::vector<unsigned char> &input): buffer = input.
InitWriter ==
    /\ wbuf \in WriterVectors
    /\ wlog = <<>>
    /\ phase = "writing"
    /\ rbuf = <<>>
    /\ offset = 0
    /\ replay = 0
    /\ last = NoResult
    /\ codec = NoCodec
    /\ pods = NoPods

\* The effect of a write that can throw: the buffer after it and, when it
\* returned, its entry in the log; when it threw, the exception the caller saw.
Attempted(w, entry) ==
    /\ wbuf' = w.buffer
    /\ wlog' = IF w.status = "ok" THEN Append(wlog, entry) ELSE wlog
    /\ last' = IF w.status = "ok" THEN last
               ELSE [op |-> entry.op, status |-> w.status, entry |-> entry, before |-> wbuf]
    /\ phase' = IF w.status = "ok" THEN phase ELSE "failed"
    /\ UNCHANGED <<rbuf, offset, replay, codec, pods>>

WriteUint128 ==
    /\ phase = "writing" /\ Len(wlog) < MaxWrites
    /\ \E value \in {Ascending(128)}, big_endian \in BOOLEAN :
          Written(serializer_uint(wbuf, value, big_endian), Entry("uint", 128, big_endian, 16, value))

WriteUint256 ==
    /\ phase = "writing" /\ Len(wlog) < MaxWrites
    /\ \E value \in {Ascending(256)}, big_endian \in BOOLEAN :
          Written(serializer_uint(wbuf, value, big_endian), Entry("uint", 256, big_endian, 32, value))

WriteBytesPointer ==
    /\ phase = "writing" /\ Len(wlog) < MaxWrites
    /\ \E data \in {NullPointer, PointerTo(<<7, 129>>)} :
          \E length \in (IF data.null THEN {0, 1} ELSE {Len(data.array)}) :
             Attempted(serializer_bytes_ptr(wbuf, data, length),
                       Entry(IF data.null THEN "bytes_null" ELSE "bytes", 8, FALSE, length,
                             data.array))

WriteHex ==
    /\ phase = "writing" /\ Len(wlog) < MaxWrites
    /\ \E value \in {<<>>, <<"0", "a">>, <<"F", "f", "1", "0">>, <<"a">>, <<"0", "g">>} :
          Attempted(serializer_hex(wbuf, value), Entry("hex", 8, FALSE, Len(value) \div 2, value))

WriteVarintWide ==
    /\ phase = "writing" /\ Len(wlog) < MaxWrites
    /\ \E W \in {128, 256} :
          \E value \in {BitsOf(300, W)} \cup (IF W = 128 THEN {LowBits(W, W)} ELSE {}) :
             Attempted(serializer_varint(wbuf, value), Entry("varint", W, FALSE, 0, value))

WritePod ==
    /\ phase = "writing" /\ Len(wlog) < MaxWrites
    /\ \E value \in {AscendingPod, HighPod} :
          Written(serializer_pod(wbuf, value), Entry("pod", 8, FALSE, PodSize, value))

WritePodVector ==
    /\ phase = "writing" /\ Len(wlog) < MaxWrites
    /\ \E values \in {<<>>, <<HighPod>>, <<AscendingPod, HighPod, ZeroPod>>} :
          Written(serializer_pod_vector(wbuf, values), Entry("podV", 8, FALSE, 0, values))

WritePodNested ==
    /\ phase = "writing" /\ Len(wlog) < MaxWrites
    /\ \E values \in {<<>>, <<<<>>>>, <<<<AscendingPod, HighPod>>, <<>>, <<ZeroPod>>>>} :
          Written(serializer_pod_nested(wbuf, values), Entry("podVV", 8, FALSE, 0, values))

\* pod(values) for a vector of SerializableVector<SerializablePod<PodSize>>.
WriteSvecVector ==
    /\ phase = "writing" /\ Len(wlog) < MaxWrites
    /\ \E values \in {<<>>, <<<<>>>>, <<<<AscendingPod, HighPod>>, <<ZeroPod>>>>} :
          Written(serializer_svec_vector(wbuf, values), Entry("svecV", 8, FALSE, 0, values))

\* reset() on a writer that has not been reset; `before` keeps the buffer it
\* cleared and size() what size() returns after it.
WriterReset ==
    /\ phase = "writing"
    /\ wlog = <<>>
    /\ last = NoResult
    /\ wbuf' = serializer_reset(wbuf)
    /\ last' = [op |-> "reset", status |-> "ok", before |-> wbuf,
                size |-> serializer_size(serializer_reset(wbuf))]
    /\ UNCHANGED <<wlog, phase, rbuf, offset, replay, codec, pods>>

\* The non-peek read that matches the write `w`, made at the cursor off.
MatchingRead(w, buffer, off, bytes_ub, shift_ub) ==
    CASE w.op = "varintV" -> deserializer_varintV(buffer, off, w.W, FALSE, shift_ub)
      [] w.op = "podV" -> deserializer_podV(buffer, off, FALSE, bytes_ub, shift_ub)
      [] w.op = "podVV" -> deserializer_podVV(buffer, off, FALSE, bytes_ub, shift_ub)
      [] w.op = "svecV" -> deserializer_podV_svec(buffer, off, FALSE, bytes_ub, shift_ub)
      [] OTHER -> SingleRead(w.op, buffer, off, w.W, FALSE, w.big_endian, w.count,
                             bytes_ub, shift_ub)

\* deserializer_t reader(writer); reader.skip(size before the last write);
\* then the read that matches the last write.
ReadBackLast ==
    /\ phase = "writing"
    /\ Len(wlog) > 0
    /\ \E w \in {wlog[Len(wlog)]} :
          /\ w.op # "bytes_null"
          /\ \E start \in {deserializer_skip(0, w.at)} :
                \E bytes_ub \in BytesUB(wbuf, start, w.count), shift_ub \in ShiftUB(wbuf, start) :
                   \E r \in {MatchingRead(w, wbuf, start, bytes_ub, shift_ub)} :
                      /\ offset' = r.offset
                      /\ last' = [op |-> w.op, W |-> w.W, peek |-> FALSE,
                                  big_endian |-> w.big_endian, count |-> w.count,
                                  start |-> start] @@ r
    /\ rbuf' = wbuf
    /\ phase' = "readback"
    /\ UNCHANGED <<wbuf, wlog, replay, codec, pods>>

\* deserializer_t reader(writer); reader.skip(position); reader.boolean(): the
\* first byte of the last write read as a boolean, whatever wrote it.
ReadBackBoolean ==
    /\ phase = "writing"
    /\ Len(wlog) > 0
    /\ \E start \in {deserializer_skip(0, wlog[Len(wlog)].at)} :
          \E r \in {deserializer_boolean(wbuf, start, FALSE)} :
             /\ offset' = r.offset
             /\ last' = [op |-> "boolean_at", W |-> 8, peek |-> FALSE, big_endian |-> FALSE,
                         count |-> 1, start |-> start] @@ r
    /\ rbuf' = wbuf
    /\ phase' = "readback"
    /\ UNCHANGED <<wbuf, wlog, replay, codec, pods>>

\* One write is explored per writer: the buffer the writer is constructed over
\* stands for whatever was written before it.
NextWriter ==
    \/ wlog = <<>> /\ WriteBoolean
    \/ wlog = <<>> /\ WriteUint8
    \/ wlog = <<>> /\ WriteUint16
    \/ wlog = <<>> /\ WriteUint32
    \/ wlog = <<>> /\ WriteUint64
    \/ wlog = <<>> /\ WriteUint128
    \/ wlog = <<>> /\ WriteUint256
    \/ wlog = <<>> /\ WriteBytes
    \/ wlog = <<>> /\ WriteBytesPointer
    \/ wlog = <<>> /\ WriteHex
    \/ wlog = <<>> /\ WriteVarint
    \/ wlog = <<>> /\ WriteVarintWide
    \/ wlog = <<>> /\ WriteVarintVector
    \/ wlog = <<>> /\ WritePod
    \/ wlog = <<>> /\ WritePodVector
    \/ wlog = <<>> /\ WritePodNested
    \/ wlog = <<>> /\ WriteSvecVector
    \/ WriterReset
    \/ ReadBackLast
    \/ ReadBackBoolean

SpecWriter == InitWriter /\ [][NextWriter]_vars

\* Bytes the varints of a list take together.
RECURSIVE VarintsLength(_)
VarintsLength(values) ==
    IF values = <<>> THEN 0 ELSE NeededLength(Head(values)) + VarintsLength(Tail(values))

\* Bytes a list of n SerializablePod<PodSize> takes: the count and the elements.
PodListLength(values) == NeededLength(BitsOf(Len(values), 64)) + Len(values) * PodSize

\* Bytes the inner lists of a nested list take together.
RECURSIVE PodListsLength(_)
PodListsLength(values) ==
    IF values = <<>> THEN 0 ELSE PodListLength(Head(values)) + PodListsLength(Tail(values))

\* The encoded length of what the logged write wrote.
EncodedLength(entry) ==
    CASE entry.op = "boolean" -> 1
      [] entry.op = "uint" -> entry.W \div 8
      [] entry.op \in {"bytes", "bytes_null"} -> entry.count
      [] entry.op = "hex" -> Len(entry.value) \div 2
      [] entry.op = "varint" -> NeededLength(entry.value)
      [] entry.op = "varintV" ->
            NeededLength(BitsOf(Len(entry.value), 64)) + VarintsLength(entry.value)
      [] entry.op = "pod" -> PodSize
      [] entry.op = "podV" -> PodListLength(entry.value)
      [] entry.op \in {"podVV", "svecV"} ->
            NeededLength(BitsOf(Len(entry.value), 64)) + PodListsLength(entry.value)

\* C12: every write that returns leaves the bytes that were in the buffer
\* unchanged at their positions and increases size() by exactly the encoded
\* length of what it wrote: 1 for boolean and uint8, width/8 for uint16..uint256
\* whatever the value, len for bytes, len/2 for hex, the needed number of 7-bit
\* groups for varint, the size of the structure for pod, and the sum of count
\* and elements for the list forms.
C12_WritesAppendEncodedLength ==
    [][Len(wlog') = Len(wlog) + 1 =>
          /\ Len(wbuf') >= Len(wbuf)
          /\ SubSeq(wbuf', 1, Len(wbuf)) = wbuf
          /\ serializer_size(wbuf') = serializer_size(wbuf) + EncodedLength(wlog'[Len(wlog')])]_vars

\* A uint256 written after three bytes: 32 bytes follow them.
C12_Witness ==
    /\ phase = "writing"
    /\ Len(wlog) = 1
    /\ wlog[1].op = "uint" /\ wlog[1].W = 256
    /\ wlog[1].at = MaxBufLen
    /\ serializer_size(wbuf) = MaxBufLen + 32

\* The text has a character that is not a hexadecimal digit.
HasNonHexDigit(text) == \E i \in 1..Len(text) : hex_values(text[i]) > 15

\* C13: a write fails only if it is bytes(ptr, len) with a null pointer and
\* len > 0, failing with an invalid-argument error, or hex(s) with s of odd
\* length or holding a character that is not a hex digit, failing with the
\* decode error; and the buffer after a failed call is the buffer before it.
C13_OnlyNullBytesAndBadHexFail ==
    [][(phase = "writing" /\ phase' = "failed") =>
          /\ \/ /\ last'.op = "bytes_null"
                /\ last'.entry.count > 0
                /\ last'.status = "invalid_argument"
             \/ /\ last'.op = "hex"
                /\ Len(last'.entry.value) % 2 = 1 \/ HasNonHexDigit(last'.entry.value)
                /\ last'.status = "runtime_error"
          /\ wbuf' = wbuf]_vars

\* The logged write made on a writer whose buffer is `buffer`.
serializer_write(buffer, entry) ==
    CASE entry.op = "boolean" -> serializer_boolean(buffer, entry.value)
      [] entry.op = "uint" /\ entry.W = 8 -> serializer_uint8(buffer, entry.value)
      [] entry.op = "uint" /\ entry.W # 8 -> serializer_uint(buffer, entry.value, entry.big_endian)
      [] entry.op = "bytes" -> serializer_bytes(buffer, entry.value)
      [] entry.op = "bytes_null" -> serializer_bytes_ptr(buffer, NullPointer, entry.count)
      [] entry.op = "hex" -> serializer_hex(buffer, entry.value)
      [] entry.op = "varint" -> serializer_varint(buffer, entry.value)
      [] entry.op = "varintV" -> serializer_varint_vector(buffer, entry.value)
      [] entry.op = "pod" -> serializer_pod(buffer, entry.value)
      [] entry.op = "podV" -> serializer_pod_vector(buffer, entry.value)
      [] entry.op = "podVV" -> serializer_pod_nested(buffer, entry.value)
      [] entry.op = "svecV" -> serializer_svec_vector(buffer, entry.value)

\* The buffer of a new writer after the first n writes of a log.
RECURSIVE FreshWriter(_, _)
FreshWriter(log, n) ==
    IF n = 0 THEN <<>> ELSE serializer_write(FreshWriter(log, n - 1), log[n]).buffer

\* C14: after reset(), whatever the buffer was, size() is 0, and the writes
\* made after it leave the buffer a new writer has after the same writes.
C14_ResetIsFresh ==
    (last.op = "reset" /\ phase = "writing") =>
        /\ last.size = 0
        /\ wbuf = FreshWriter(wlog, Len(wlog))

\* A writer over three bytes, reset, then a varint written.
C14_Witness ==
    /\ last.op = "reset" /\ phase = "writing"
    /\ Len(last.before) = MaxBufLen
    /\ Len(wlog) = 1
    /\ wlog[1].op = "varint"
    /\ wbuf # <<>>

\* C16: boolean(v) appends exactly one byte, 0x01 for true and 0x00 for
\* false; boolean() on a reader whose cursor is at a byte of the buffer returns
\* true if and only if that byte is 0x01, every other value reading as false,
\* and advances the cursor by one.
C16_BooleanIsOneByte ==
    [][/\ (Len(wlog') = Len(wlog) + 1 /\ wlog'[Len(wlog')].op = "boolean") =>
             wbuf' = wbuf \o <<IF wlog'[Len(wlog')].value THEN 1 ELSE 0>>
       /\ (phase' = "readback" /\ last'.op = "boolean_at" /\ last'.start < Len(wbuf)) =>
             /\ last'.status = "ok"
             /\ last'.value = (wbuf[last'.start + 1] = 1)
             /\ offset' = last'.start + 1
             /\ rbuf' = wbuf]_vars

\* boolean() has read a byte that is neither 0x00 nor 0x01.
C16_Witness ==
    /\ phase = "readback" /\ last.op = "boolean_at"
    /\ last.start > 0 /\ last.start < Len(rbuf)
    /\ rbuf[last.start + 1] > 1
    /\ last.status = "ok" /\ ~last.value

\* The raw bytes of the elements of a list, in list order.
RECURSIVE RawBytes(_)
RawBytes(values) ==
    IF values = <<>> THEN <<>> ELSE Head(values) \o RawBytes(Tail(values))

\* C17: pod(L) for a list L of SerializablePod<PodSize> values, the empty list
\* included, appends encode_varint(|L|) followed by the PodSize raw bytes of
\* each element in list order and nothing else; podV on that output returns L
\* and advances the cursor by len(encode_varint(|L|)) + |L| * PodSize.
C17_PodListRoundTrip ==
    [][/\ (Len(wlog') = Len(wlog) + 1 /\ wlog'[Len(wlog')].op = "podV") =>
             wbuf' = wbuf \o encode_varint(BitsOf(Len(wlog'[Len(wlog')].value), 64)).bytes
                          \o RawBytes(wlog'[Len(wlog')].value)
       /\ (phase' = "readback" /\ last'.op = "podV") =>
             /\ last'.status = "ok"
             /\ last'.value = wlog[Len(wlog)].value
             /\ offset' = last'.start
                            + Len(encode_varint(BitsOf(Len(wlog[Len(wlog)].value), 64)).bytes)
                            + Len(wlog[Len(wlog)].value) * PodSize]_vars

\* A list of three elements written after other bytes and read back.
C17_Witness ==
    /\ phase = "readback" /\ last.op = "podV"
    /\ last.start > 0
    /\ last.status = "ok"
    /\ Len(last.value) = 3
    /\ last.value[1] # last.value[2]

\* C18: podVV on the output of pod(VV) for a two-level list VV, an empty outer
\* list and empty inner lists included, returns VV and leaves the cursor at the
\* end of the bytes written.
C18_NestedPodListRoundTrip ==
    [][(phase' = "readback" /\ last'.op = "podVV") =>
          /\ last'.status = "ok"
          /\ last'.value = wlog[Len(wlog)].value
          /\ Len(last'.value) = Len(wlog[Len(wlog)].value)
          /\ \A i \in 1..Len(last'.value) :
                Len(last'.value[i]) = Len(wlog[Len(wlog)].value[i])
          /\ last'.start = wlog[Len(wlog)].at
          /\ offset' = Len(wbuf)]_vars

\* A nested list with a two-element, an empty and a one-element inner list,
\* written after other bytes and read back.
C18_Witness ==
    /\ phase = "readback" /\ last.op = "podVV"
    /\ last.start > 0
    /\ last.status = "ok"
    /\ Len(last.value) = 3
    /\ Len(last.value[1]) = 2 /\ last.value[2] = <<>> /\ Len(last.value[3]) = 1

(***************************************************************************)
(* The fixed-width packer exercised alone: pack on values of the 8-bit to  *)
(* 64-bit types in both byte orders, unpack on its output.                *)
(***************************************************************************)
PackWidths == {8, 16, 32, 64}

PackInputs ==
    UNION {{[NoCodec EXCEPT !.kind = "pack", !.W = W, !.value = v] : v \in ValuesOf(W)} :
              W \in PackWidths}

InitPack ==
    /\ wbuf = <<>>
    /\ wlog = <<>>
    /\ phase = "codec"
    /\ rbuf = <<>>
    /\ offset = 0
    /\ replay = 0
    /\ last = NoResult
    /\ codec \in PackInputs
    /\ pods = NoPods

\* pack(value, big_endian)
PackValue ==
    /\ codec.kind = "pack"
    /\ codec.enc.status = "none"
    /\ \E big_endian \in BOOLEAN :
          codec' = [codec EXCEPT !.enc = [status |-> "ok", big_endian |-> big_endian,
                                          bytes |-> pack(codec.value, big_endian)]]
    /\ UNCHANGED <<wbuf, wlog, phase, rbuf, offset, replay, last, pods>>

\* unpack(pack(value, big_endian), 0, big_endian)
UnpackPacked ==
    /\ codec.kind = "pack"
    /\ codec.enc.status = "ok"
    /\ codec.dec.status = "none"
    /\ codec' = [codec EXCEPT !.packed = codec.enc.bytes,
                              !.dec = unpack(codec.enc.bytes, 0, codec.W, codec.enc.big_endian)]
    /\ UNCHANGED <<wbuf, wlog, phase, rbuf, offset, replay, last, pods>>

NextPack == PackValue \/ UnpackPacked

SpecPack == InitPack /\ [][NextPack]_vars

\* a is b with its bytes in the opposite order.
IsReversalOf(a, b) ==
    /\ Len(a) = Len(b)
    /\ \A j \in 1..Len(a) : a[j] = b[Len(b) + 1 - j]

\* C15: for every value of the 8-bit to 64-bit types and both byte orders,
\* pack returns exactly sizeof(type) bytes, the big-endian packing is the
\* little-endian packing with its bytes reversed, and unpack of the packing at
\* offset 0 in the same byte order returns the value.
C15_PackUnpackRoundTrip ==
    (codec.kind = "pack" /\ codec.enc.status = "ok") =>
        /\ Len(codec.enc.bytes) = codec.W \div 8
        /\ IsReversalOf(pack(codec.value, TRUE), pack(codec.value, FALSE))
        /\ codec.dec.status # "none" =>
              /\ codec.dec.status = "ok"
              /\ codec.dec.value = codec.value

\* A 64-bit value whose big-endian packing differs from its little-endian
\* packing, unpacked.
C15_Witness ==
    /\ codec.kind = "pack" /\ codec.W = 64
    /\ codec.enc.status = "ok" /\ codec.enc.big_endian
    /\ codec.enc.bytes # pack(codec.value, FALSE)
    /\ codec.dec.status = "ok"

(***************************************************************************)
(* SerializablePod<PodSize> exercised alone: two objects a and b, a loaded *)
(* from byte vectors, b constructed from hex strings, and the comparison   *)
(* operators applied to the pair.                                          *)
(***************************************************************************)
\* Sequences over S of length exactly n.
SeqsOfLen(S, n) == {s \in SeqsUpTo(S, n) : Len(s) = n}

PodBytes == {0, 1, 255}

\* Byte vectors of every length up to one more than the structure holds.
PodData == SeqsUpTo({0, 7}, PodSize + 1)

\* The hex text of n bytes 0x0f.
HexOf(n) == Vec([i \in 1..(2 * n) |-> IF i % 2 = 0 THEN "f" ELSE "0"])

\* The characters from_hex accepts.
HexDigits ==
    {"0", "1", "2", "3", "4", "5", "6", "7", "8", "9", "a", "b", "c", "d", "e", "f",
     "A", "B", "C", "D", "E", "F"}

\* Texts of the length of the structure with every digit at every position.
HexDigitTexts ==
    {[HexOf(PodSize) EXCEPT ![i] = c] : i \in 1..(2 * PodSize), c \in HexDigits}

\* Hex texts of every length up to one byte more than the structure holds, a
\* text of odd length and a text of the right length with a wrong character.
PodStrings ==
    {HexOf(n) : n \in 0..(PodSize + 1)}
        \cup {<<"a">>, Vec([i \in 1..(2 * PodSize) |-> IF i = 1 THEN "g" ELSE "0"])}
        \cup HexDigitTexts


InitPod ==
    /\ wbuf = <<>>
    /\ wlog = <<>>
    /\ phase = "pods"
    /\ rbuf = <<>>
    /\ offset = 0
    /\ replay = 0
    /\ last = NoResult
    /\ codec = NoCodec
    /\ pods \in [a : SeqsOfLen(PodBytes, PodSize), b : SeqsOfLen(PodBytes, PodSize)]

\* What a call on the pair returned.
Compared(op, value) ==
    /\ last' = [op |-> op, status |-> "ok", value |-> value]
    /\ phase' = "returned"
    /\ UNCHANGED <<wbuf, wlog, rbuf, offset, replay, codec, pods>>

\* a.deserialize(data)
PodDeserialize ==
    /\ phase = "pods"
    /\ \E data \in PodData :
          \E r \in {pod_load(pods.a, data)} :
             /\ pods' = [pods EXCEPT !.a = r.bytes]
             /\ last' = [op |-> "deserialize", status |-> r.status, data |-> data,
                         before |-> pods.a]
    /\ phase' = "returned"
    /\ UNCHANGED <<wbuf, wlog, rbuf, offset, replay, codec>>

\* b = SerializablePod<PodSize>(str): a new object, its bytes zero, then
\* from_string(str); b is replaced only if the constructor returns.
PodConstruct ==
    /\ phase = "pods"
    /\ \E str \in PodStrings :
          \E r \in {pod_from_string(ZeroPod, str)} :
             /\ pods' = IF r.status = "ok" THEN [pods EXCEPT !.b = r.bytes] ELSE pods
             /\ last' = [op |-> "construct", status |-> r.status, str |-> str]
    /\ phase' = "returned"
    /\ UNCHANGED <<wbuf, wlog, rbuf, offset, replay, codec>>

\* b.to_string() on the object just constructed from a hex string.
PodToString ==
    /\ phase = "returned"
    /\ last.op = "construct" /\ last.status = "ok"
    /\ last' = [op |-> "to_string", status |-> "ok", str |-> last.str,
                value |-> pod_to_string(pods.b)]
    /\ phase' = "done"
    /\ UNCHANGED <<wbuf, wlog, rbuf, offset, replay, codec, pods>>

PodEqual == phase = "pods" /\ Compared("equal", pod_equal(pods.a, pods.b))

PodNotEqual == phase = "pods" /\ Compared("not_equal", pod_not_equal(pods.a, pods.b))

PodLess == phase = "pods" /\ Compared("less", pod_less(pods.a, pods.b))

PodGreater == phase = "pods" /\ Compared("greater", pod_greater(pods.a, pods.b))

PodLessEqual == phase = "pods" /\ Compared("less_equal", pod_less_equal(pods.a, pods.b))

PodGreaterEqual == phase = "pods" /\ Compared("greater_equal", pod_greater_equal(pods.a, pods.b))

PodEmpty == phase = "pods" /\ Compared("empty", pod_empty(pods.a))

NextPod ==
    \/ PodDeserialize \/ PodConstruct \/ PodToString
    \/ PodEqual \/ PodNotEqual \/ PodLess \/ PodGreater \/ PodLessEqual \/ PodGreaterEqual
    \/ PodEmpty

SpecPod == InitPod /\ [][NextPod]_vars

\* The text is hex digits only and of even length.
WellFormedHex(str) == Len(str) % 2 = 0 /\ ~HasNonHexDigit(str)

\* C19: deserialize(data) with data not exactly PodSize bytes long raises an
\* error and leaves the stored bytes what they were; construction from a hex
\* string that does not decode to exactly PodSize bytes raises an error.
C19_WrongSizeRejected ==
    /\ (last.op = "deserialize" /\ Len(last.data) # PodSize) =>
          /\ last.status = "runtime_error"
          /\ pods.a = last.before
    /\ (last.op = "construct" /\ ~(WellFormedHex(last.str) /\ Len(last.str) = 2 * PodSize)) =>
          last.status = "runtime_error"

\* deserialize of one byte too many on an object that held nonzero bytes.
C19_Witness ==
    /\ last.op = "deserialize"
    /\ Len(last.data) = PodSize + 1
    /\ last.status = "runtime_error"
    /\ pods.a # ZeroPod

\* At the highest position where a and b differ, a's byte is the smaller.
SmallerAtHighestDifference(a, b) ==
    \E i \in 1..PodSize :
       /\ a[i] < b[i]
       /\ \A j \in (i + 1)..PodSize : a[j] = b[j]

\* C20: a < b exactly when a's byte is the smaller at the highest position
\* where a and b differ; the all-zero value is empty() and is less than every
\* value with a nonzero byte; a > b, a <= b and a >= b follow the same order.
C20_OrderByHighestByte ==
    /\ last.op = "less" =>
          /\ last.value = SmallerAtHighestDifference(pods.a, pods.b)
          /\ (pods.a = ZeroPod /\ \E i \in 1..PodSize : pods.b[i] # 0) => last.value
    /\ last.op = "greater" => last.value = SmallerAtHighestDifference(pods.b, pods.a)
    /\ last.op = "less_equal" => last.value = ~SmallerAtHighestDifference(pods.b, pods.a)
    /\ last.op = "greater_equal" => last.value = ~SmallerAtHighestDifference(pods.a, pods.b)
    /\ last.op = "empty" => last.value = (\A i \in 1..PodSize : pods.a[i] = 0)

\* a < b decided by the highest byte against the lowest.
C20_Witness ==
    /\ last.op = "less"
    /\ last.value
    /\ pods.a[1] > pods.b[1]
    /\ pods.a[PodSize] < pods.b[PodSize]

\* C21 as stated: the text of an object constructed from a hex string that
\* decodes to exactly PodSize bytes is that string.
C21_ToStringReturnsText ==
    last.op = "to_string" => last.value = last.str

\* The text has only the characters to_hex writes: 0-9 and a-f.
IsLowerHex(str) == \A i \in 1..Len(str) : \E k \in 1..16 : str[i] = hex_chars[k]

\* C21, amended: the text of an object constructed from a hex string of the
\* characters 0-9 and a-f that decodes to exactly PodSize bytes is that string.
C21_ToStringReturnsLowerText ==
    (last.op = "to_string" /\ IsLowerHex(last.str)) => last.value = last.str

\* A text with a letter and digits, constructed from and written back.
C21_Witness ==
    /\ last.op = "to_string"
    /\ \E i \in 1..Len(last.str) : last.str[i] = "c"
    /\ last.value = last.str
    /\ Len(last.value) = 2 * PodSize

(***************************************************************************)
(* The hex helpers exercised alone: to_hex on byte sequences, from_hex on  *)
(* its output.                                                             *)
(***************************************************************************)
\* Bytes with every kind of nibble pair: digits only, letters only, mixed.
HexBytes == {0, 9, 10, 26, 161, 175, 255}

\* Every single byte, and the sequences over HexBytes.
HexInputs == {<<b>> : b \in 0..255} \cup SeqsUpTo(HexBytes, MaxBufLen)

InitHex ==
    /\ wbuf = <<>>
    /\ wlog = <<>>
    /\ phase = "codec"
    /\ rbuf = <<>>
    /\ offset = 0
    /\ replay = 0
    /\ last = NoResult
    /\ codec \in {[NoCodec EXCEPT !.kind = "hex", !.packed = b] : b \in HexInputs}
    /\ pods = NoPods

\* to_hex(data, length)
HexEncode ==
    /\ codec.kind = "hex"
    /\ codec.enc.status = "none"
    /\ codec' = [codec EXCEPT !.enc = [status |-> "ok", text |-> to_hex(codec.packed)]]
    /\ UNCHANGED <<wbuf, wlog, phase, rbuf, offset, replay, last, pods>>

\* from_hex(to_hex(data, length))
HexDecode ==
    /\ codec.kind = "hex"
    /\ codec.enc.status = "ok"
    /\ codec.dec.status = "none"
    /\ codec' = [codec EXCEPT !.dec = from_hex(codec.enc.text)]
    /\ UNCHANGED <<wbuf, wlog, phase, rbuf, offset, replay, last, pods>>

NextHex == HexEncode \/ HexDecode

SpecHex == InitHex /\ [][NextHex]_vars

\* C22: to_hex of a byte sequence has exactly two characters per byte, each
\* one of 0-9 and a-f, and is the empty string for the empty sequence; from_hex
\* of it returns the byte sequence, the empty one for the empty string.
C22_HexRoundTrip ==
    (codec.kind = "hex" /\ codec.enc.status = "ok") =>
        /\ Len(codec.enc.text) = 2 * Len(codec.packed)
        /\ \A i \in 1..Len(codec.enc.text) :
              codec.enc.text[i] \in {"0", "1", "2", "3", "4", "5", "6", "7", "8", "9",
                                     "a", "b", "c", "d", "e", "f"}
        /\ codec.packed = <<>> => codec.enc.text = <<>>
        /\ codec.dec.status # "none" =>
              /\ codec.dec.status = "ok"
              /\ codec.dec.bytes = codec.packed
              /\ codec.enc.text = <<>> => codec.dec.bytes = <<>>

\* Three bytes with letters and digits encoded and decoded.
C22_Witness ==
    /\ codec.kind = "hex"
    /\ codec.packed = <<175, 9, 161>>
    /\ codec.enc.status = "ok"
    /\ codec.enc.text = <<"a", "f", "0", "9", "a", "1">>
    /\ codec.dec.status = "ok"

\* C23: podV on the output of pod(L), for a list L of SerializableVector
\* values of fixed-size PODs, returns L.
C23_VectorListRoundTrip ==
    [][(phase' = "readback" /\ last'.op = "svecV") =>
          /\ last'.status = "ok"
          /\ last'.value = wlog[Len(wlog)].value]_vars

\* The composite reads.
CompositeReads == {"varintV", "podV", "podVV"}

\* C24: podV, podVV or varintV called with peek = true leaves the cursor where
\* it was before the call, whether the read completes or raises an error.
C24_CompositePeekKeepsCursor ==
    (/\ phase = "returned"
     /\ last.op \in CompositeReads
     /\ last.peek
     /\ last.status \in {"ok", "range_error"})
        => offset = last.start

SvecElements == {ZeroPod, HighPod}

\* SerializableVector() = default: both containers empty.
InitSvec ==
    /\ wbuf = <<>>
    /\ wlog = <<>>
    /\ phase = "vectors"
    /\ rbuf = <<>>
    /\ offset = 0
    /\ replay = 0
    /\ last = NoResult
    /\ codec = NoCodec
    /\ pods = [a |-> <<>>, b |-> <<>>]

\* a.append(value)
SvecAppendA ==
    /\ phase = "vectors" /\ Len(pods.a) < MaxElements
    /\ \E value \in SvecElements : pods' = [pods EXCEPT !.a = svec_append(pods.a, value)]
    /\ UNCHANGED <<wbuf, wlog, phase, rbuf, offset, replay, last, codec>>

\* b.append(value)
SvecAppendB ==
    /\ phase = "vectors" /\ Len(pods.b) < MaxElements
    /\ \E value \in SvecElements : pods' = [pods EXCEPT !.b = svec_append(pods.b, value)]
    /\ UNCHANGED <<wbuf, wlog, phase, rbuf, offset, replay, last, codec>>

\* The outcomes of reading past the end of the other container.
EqualUB(container, other) ==
    IF Len(container) <= Len(other) THEN {[crash |-> FALSE, fill |-> 0]} ELSE BytesOutcomes

SvecCompared(op, r) ==
    /\ last' = [op |-> op] @@ r
    /\ phase' = IF r.status = "crash" THEN "crashed" ELSE "returned"
    /\ UNCHANGED <<wbuf, wlog, rbuf, offset, replay, codec, pods>>

\* a == b
SvecEqual ==
    /\ phase = "vectors"
    /\ \E ub \in EqualUB(pods.a, pods.b) :
          SvecCompared("equal", svec_equal(pods.a, pods.b, ub))

\* a != b
SvecNotEqual ==
    /\ phase = "vectors"
    /\ \E ub \in EqualUB(pods.a, pods.b) :
          SvecCompared("not_equal", svec_not_equal(pods.a, pods.b, ub))

NextSvec == SvecAppendA \/ SvecAppendB \/ SvecEqual \/ SvecNotEqual

SpecSvec == InitSvec /\ [][NextSvec]_vars

\* Same number of elements, pairwise equal in order.
SameElements(a, b) ==
    /\ Len(a) = Len(b)
    /\ \A i \in 1..Len(a) : pod_equal(a[i], b[i])

\* C26: a == b is true exactly when a and b hold the same number of elements
\* and the elements are pairwise equal in order, and a != b is its negation; an
\* empty vector differs from a non-empty one and a proper prefix from the
\* longer vector.
C26_EqualIffSameElements ==
    (phase \in {"returned", "crashed"} /\ last.op \in {"equal", "not_equal"}) =>
        /\ last.status = "ok"
        /\ last.op = "equal" => last.value = SameElements(pods.a, pods.b)
        /\ last.op = "not_equal" => last.value = ~SameElements(pods.a, pods.b)

\* C27: a non-peek single-value read (uint8..uint256 or varint<T>) that fails
\* with a range error leaves the cursor and the buffer as they were before the
\* call.
C27_FailedReadKeepsCursor ==
    [][(/\ phase = "reading"
        /\ last'.op \in {"uint", "varint"}
        /\ ~last'.peek
        /\ last'.status = "range_error")
          => (offset' = offset /\ rbuf' = rbuf)]_vars

(***************************************************************************)
(* A writer, a reader constructed from it, and operations on both           *)
(* afterwards.  One later writer operation is explored per behaviour; wlog  *)
(* records it.                                                             *)
(***************************************************************************)
\* writer.uint8(value) after the reader was constructed.
LaterWrite ==
    /\ phase = "reading" /\ wlog = <<>>
    /\ \E value \in {7} :
          Written(serializer_uint8(wbuf, BitsOf(value, 8)), Entry("uint", 8, FALSE, 1, value))

\* writer[i] = value after the reader was constructed.
LaterAssign ==
    /\ phase = "reading" /\ wlog = <<>>
    /\ \E i \in 0..(Len(wbuf) - 1), value \in {7} :
          Written([status |-> "ok", buffer |-> serializer_assign(wbuf, i, value)],
                  Entry("assign", 8, FALSE, i, value))

\* writer.reset() after the reader was constructed.
LaterReset ==
    /\ phase = "reading" /\ wlog = <<>>
    /\ Written([status |-> "ok", buffer |-> serializer_reset(wbuf)],
               Entry("reset", 8, FALSE, 0, 0))

NextCopy ==
    \/ Construct \/ LaterWrite \/ LaterAssign \/ LaterReset
    \/ ReadUint8 \/ ReadVarint \/ ReadBytes \/ Skip \/ Compact \/ UnreadData \/ Return

SpecCopy == InitWriter /\ [][NextCopy]_vars

\* C28: a reader constructed from a writer holds its own copy of the bytes: no
\* later operation on the writer (write, index assignment, reset) changes the
\* reader's buffer or cursor, and no reader operation other than compact()
\* changes the reader's buffer.
C28_ReaderOwnsItsBytes ==
    [][/\ (phase = "writing" /\ phase' = "reading") => (rbuf' = wbuf /\ offset' = 0)
       /\ (phase = "reading" /\ wlog' # wlog) => (rbuf' = rbuf /\ offset' = offset)
       /\ (phase = "reading" /\ rbuf' # rbuf) => last'.op = "compact"]_vars

\* The writer's first byte was assigned after the reader was constructed from
\* three bytes; the reader has since read the first byte as it was written.
C28_Witness ==
    /\ phase = "returned"
    /\ Len(wlog) = 1 /\ wlog[1].op = "assign" /\ wlog[1].count = 0
    /\ wbuf = <<7, 129, 0>>
    /\ rbuf = <<129, 129, 0>>
    /\ last.op = "uint" /\ last.status = "ok" /\ last.value = BitsOf(129, 8)
    /\ offset = 1

\* Bit j (from 0) of the value, 0 above its width.
BitAt(value, j) == IF j < Len(value) THEN value[j + 1] ELSE 0

\* Byte i of bytes carries the i-th 7-bit group of value, lowest group first.
GroupsInOrder(bytes, value) ==
    \A i \in 1..Len(bytes) : \A j \in 0..6 :
        ((bytes[i] % 128) \div Pow2(j)) % 2 = BitAt(value, 7 * (i - 1) + j)

\* C29: for every value of 8, 16, 32 or 64 bits encode_varint returns the
\* canonical least-significant-group-first encoding: every byte but the last
\* has its high bit set, the last has it clear and is nonzero unless the value
\* is 0, and the length is max(1, ceil(bitlength / 7)), at most ceil(W / 7) + 1.
C29_EncodingIsCanonical ==
    (/\ codec.kind = "value"
     /\ codec.W \in {8, 16, 32, 64}
     /\ codec.enc.status # "none")
        => /\ codec.enc.status = "ok"
           /\ \A i \in 1..(Len(codec.enc.bytes) - 1) : codec.enc.bytes[i] >= 128
           /\ codec.enc.bytes[Len(codec.enc.bytes)] < 128
           /\ codec.enc.bytes[Len(codec.enc.bytes)] = 0 => BitLength(codec.value) = 0
           /\ GroupsInOrder(codec.enc.bytes, codec.value)
           /\ Len(codec.enc.bytes) = NeededLength(codec.value)
           /\ Len(codec.enc.bytes) <= ((codec.W + 6) \div 7) + 1

\* The largest 32-bit value was encoded to five bytes, the last one holding
\* the top four bits.
C29_Witness ==
    /\ codec.kind = "value"
    /\ codec.W = 32
    /\ codec.value = LowBits(32, 32)
    /\ codec.enc.status = "ok"
    /\ codec.enc.bytes = <<255, 255, 255, 255, 15>>

\* The indices of the buffer that the copy loop of unpack reads for a value of
\* `size` bytes at cursor `start`: i from start while i < start + size, in
\* the arithmetic of size_t.
IndicesRead(start, size) ==
    {i \in start..(start + size - 1) : SizeGe(i, start) /\ SizeLt(i, start + size)}

\* C30: at every cursor reachable through reset(position) or skip(count), also
\* past the end of the buffer and close to the maximum of size_t, a fixed-width
\* read raises a range error or reads only indices below the buffer length; the
\* test offset + sizeof(type) > size is not defeated by the addition wrapping
\* around.
C30_BoundsTestSurvivesWrap ==
    (phase = "returned" /\ last.op = "uint") =>
        /\ last.status = "ok" =>
              \A i \in IndicesRead(last.start, last.count) : i >= 0 /\ i < Len(rbuf)
        /\ (last.start < 0 \/ last.start + last.count > Len(rbuf)) =>
              last.status = "range_error"

====
